---- MODULE Spec2Model ----
(***************************************************************************)
(* ByteSip: the news fetcher (cache manager + fetch orchestrator) of the   *)
(* Lambda function and the curation agent (get_news + session memory).     *)
(*                                                                         *)
(* The specifications of the module:                                       *)
(*   Spec       NewsFetcher.fetch over CacheManager and the handlers       *)
(*   FaultSpec  the same, with table requests that may fail, and fairness  *)
(*   RefetchSpec  one fetch after another on the same table                *)
(*   CacheSpec  CacheManager called directly, with time passing            *)
(*   AgentSpec  ByteSipAgent.get_news over ProposedIdsManager              *)
(*   MemorySpec the same, with ProposedIdsManager also called directly     *)
(*   HandlerSpec the source handlers and generate_news_id called directly  *)
(*   LambdaSpec lambda_handler over NewsFetcher.fetch                      *)
(*   RaceSpec   two callers of get_news / record_proposed_ids on a session *)
(*   CacheRaceSpec  two callers of set / invalidate on the table           *)
(***************************************************************************)
EXTENDS Integers, Sequences, FiniteSets, TLC

\* The field names of the records below. TLC keeps the fields of a record in the
\* order in which the names first occur in the module, so they are listed here
\* once, in the order every record constructor below writes them.
FieldNames ==
    [ PK |-> "PK",
      SK |-> "SK",
      id |-> "id",
      title |-> "title",
      url |-> "url",
      summary |-> "summary",
      sources |-> "sources",
      tags |-> "tags",
      force_refresh |-> "force_refresh",
      limit |-> "limit",
      source |-> "source",
      ttl |-> "ttl",
      error_type |-> "error_type",
      message |-> "message",
      kind |-> "kind",
      now |-> "now",
      at |-> "at",
      items |-> "items",
      errors |-> "errors",
      has_more |-> "has_more",
      pc |-> "pc",
      cached |-> "cached",
      unexpired |-> "unexpired",
      fetched |-> "fetched",
      passed |-> "passed",
      stored |-> "stored",
      error |-> "error",
      result |-> "result",
      log |-> "log",
      ids |-> "ids",
      rev |-> "rev",
      proposed |-> "proposed",
      status |-> "status",
      remaining |-> "remaining",
      body |-> "body",
      exc |-> "exc",
      reply |-> "reply",
      original_id |-> "original_id",
      futures |-> "futures",
      alone |-> "alone",
      next |-> "next" ]

VARIABLES
    clock,        \* time.time(), in ticks of 1/TicksPerSecond second
    clockSteps,   \* how often the clock was advanced
    ncache,       \* number of direct CacheManager.set calls made
    got,          \* the last direct CacheManager.get call and what it returned
    table,        \* the DynamoDB table: a set of rows
    fetcher,      \* handler.py's module global _fetcher: None, or the NewsFetcher
    handlers,     \* NewsFetcher._handlers: the registered sources, in dict order
    phase,        \* position of the caller of fetch: "idle", "running" (in fetch),
                  \* or "raised" (fetch ended with an exception)
    call,         \* the arguments of the fetch in progress (or last made)
    futures,      \* one record per submitted _fetch_source task
    all_items,    \* fetch's local all_items
    all_errors,   \* fetch's local all_errors
    response,     \* the FetchNewsResponse last returned
    nfetch,       \* number of fetch calls made
    fetchlog,     \* the returned fetch calls that RefetchSpec keeps for later calls
    setlog,       \* per source: the CacheManager.set calls since the last invalidate
    catalog,      \* the underlying item set behind the agent's fetch function
    session,      \* the session attributes: the stored proposed_ids list
    last,         \* the last get_news call: its arguments, fetch result, response
    history,      \* the ids returned by each get_news call, in call order
    ncalls,       \* number of agent operations made
    prev,         \* the get_news call before the last one
    ret,          \* the last direct call of a method or function, and what it returned
    threads       \* the callers running concurrently on one session or one table

cacheVars == <<clock, clockSteps, table, setlog, ncache, got>>
fetchVars == <<fetcher, handlers, phase, call, futures, all_items, all_errors, response,
               nfetch, fetchlog>>
agentVars == <<catalog, session, last, history, ncalls, prev, ret, threads>>
vars == <<clock, clockSteps, table, setlog, ncache, got,
          fetcher, handlers, phase, call, futures, all_items, all_errors, response,
          nfetch, fetchlog,
          catalog, session, last, history, ncalls, prev, ret, threads>>

---------------------------------------------------------------------------
(* Bounds of the model *)

\* Clock resolution: ticks per second, subdividing time.time().
TicksPerSecond == 2
\* Number of clock advances in one behaviour.
MaxClockSteps == 2
\* Number of direct CacheManager.set calls in one behaviour.
MaxSets == 2
\* Number of fetch calls in one behaviour.
MaxFetches == 1
\* Number of agent operations in one behaviour.
MaxCalls == 3
\* Largest set whose every listing order is produced.
MaxPermuted == 3
\* Largest underlying item set of a session whose memory is also called directly.
MaxCatalog == 4
\* Number of callers running concurrently on one session or on one table.
MaxThreads == 2
\* Number of fetch calls in one behaviour of fetch after fetch.
MaxRefetches == 2

---------------------------------------------------------------------------
(* Program constants *)

DYNAMODB_PK_PREFIX == "SOURCE#"
DYNAMODB_SK_ITEM_PREFIX == "ITEM#"
CACHE_TTL_SECONDS == 86400
MAX_ITEMS_PER_SOURCE == 30
MAX_WORKERS == 3
DEFAULT_LIMIT == 10
MAX_PER_SOURCE == 10
MAX_TOTAL == 30

\* An optional value: Python's None, or a value that is present.
None == <<>>
Some(x) == <<x>>
Value(opt) == opt[1]

\* SourceType and ErrorType.
SourceType == {"qiita", "zenn", "github"}
ErrorType == {"connection_error", "rate_limit", "parse_error"}

Min(a, b) == IF a < b THEN a ELSE b
Max(a, b) == IF a > b THEN a ELSE b
MaxOf(S) == CHOOSE m \in S : \A n \in S : n <= m

\* The elements of a sequence.
Range(s) == {s[i] : i \in DOMAIN s}

\* Python's s[:n] for any integer n (a negative n counts from the end).
Slice(s, n) ==
    IF n >= 0 THEN SubSeq(s, 1, Min(n, Len(s)))
    ELSE SubSeq(s, 1, Max(Len(s) + n, 0))

---------------------------------------------------------------------------
(* models.py *)

NewsItem(id, title, url, summary, tags, source) ==
    [id |-> id, title |-> title, url |-> url, summary |-> summary,
     tags |-> tags, source |-> source]

\* Variant of generate_news_id that joins the two parts without a separator
\* and shortens the source to its first letter.
generate_news_id_first_letter(source, original_id) ==
    SubSeq(source, 1, 1) \o original_id

generate_news_id(source, original_id) == source \o "_" \o original_id

SourceError(source, error_type, message) ==
    [source |-> source, error_type |-> error_type, message |-> message]

FetchNewsResponse(items, errors) == [items |-> items, errors |-> errors]

---------------------------------------------------------------------------
(* The providers behind the handlers: what a handler call can produce *)

\* Original ids the providers use (Qiita item ids, Zenn slugs, GitHub names).
OriginalIds == 1..41

\* Case folding of the tag vocabulary (str.lower / provider-side matching).
Lower(tag) ==
    CASE tag = "Python" -> "python"
      [] tag = "Go" -> "go"
      [] OTHER -> tag

\* The topic a provider files original id k under.
TopicOf(k) == IF k % 2 = 1 THEN "Python" ELSE "go"

\* The NewsItem a handler builds for original id k at content revision v
\* (a revision changes the title, never the id).
FeedItem(source, k, v) ==
    NewsItem(generate_news_id(source, ToString(k)),
             IF v = 1 THEN "title " \o ToString(k)
                      ELSE "title " \o ToString(k) \o " (edited)",
             "https://example.com/" \o ToString(k),
             "summary " \o ToString(k),
             IF source = "zenn" THEN <<>> ELSE <<TopicOf(k)>>,
             source)

\* 1, 2, ..., n
UpTo(n) == [i \in 1..n |-> i]

\* What each provider may be serving at the time of a call: the original ids in
\* the provider's order, and the content revision.
ProviderFeeds(source) ==
    CASE source = "qiita" ->
           { [ids |-> <<>>, rev |-> 1],
             [ids |-> <<2, 1, 3>>, rev |-> 2],
             [ids |-> <<40, 41>>, rev |-> 1] }
      [] source = "zenn" ->
           { [ids |-> <<5, 4>>, rev |-> 1] }
      [] source = "github" ->
           { [ids |-> <<7>>, rev |-> 1] }

\* The failures each handler maps provider trouble to.
HandlerErrors(source) ==
    CASE source = "qiita" ->
           { SourceError("qiita", "rate_limit", "Qiita API rate limit exceeded") }
      [] source = "zenn" ->
           { SourceError("zenn", "parse_error", "not well-formed") }
      [] source = "github" ->
           { SourceError("github", "connection_error", "timed out") }

\* Provider-side tag filtering: the handler passes tags on to the provider
\* (Qiita query, Zenn topic feed of tags[0], GitHub topic: terms).
ProviderMatches(source, k, tags) ==
    IF tags = None \/ tags = Some(<<>>) THEN TRUE
    ELSE IF source = "zenn" THEN Lower(TopicOf(k)) = Lower(Value(tags)[1])
    ELSE IF source = "qiita"
         THEN \E i \in DOMAIN Value(tags) : Lower(TopicOf(k)) = Lower(Value(tags)[i])
    ELSE \A i \in DOMAIN Value(tags) : Lower(TopicOf(k)) = Lower(Value(tags)[i])

\* handler.fetch(tags): the items of one feed, or a SourceError.
HandlerItems(source, feed, tags) ==
    LET ks == SelectSeq(feed.ids, LAMBDA k : ProviderMatches(source, k, tags))
    IN  [i \in 1..Len(ks) |-> FeedItem(source, ks[i], feed.rev)]

HandlerOutcomes(source, tags) ==
    { [kind |-> "items", items |-> HandlerItems(source, f, tags), error |-> None] :
          f \in ProviderFeeds(source) }
    \cup
    { [kind |-> "error", items |-> <<>>, error |-> Some(e)] :
          e \in HandlerErrors(source) }

---------------------------------------------------------------------------
(* handlers/qiita.py, handlers/zenn.py, handlers/github.py: one fetch call *)

\* What requests.get hands back to a handler: an exception, or a response with
\* a status code, an X-RateLimit-Remaining header (None when absent) and a body
\* ("ok": the JSON of a feed; "invalid_json": response.json() raises;
\* "missing_key": an entry lacks a key _parse_response indexes).
RaisedReply(exc) ==
    [kind |-> "raise", ids |-> <<>>, rev |-> 1, status |-> 0,
     remaining |-> None, body |-> "none", exc |-> Some(exc)]

HttpReply(status, remaining, body, feed) ==
    [kind |-> "http", ids |-> feed.ids, rev |-> feed.rev, status |-> status,
     remaining |-> remaining, body |-> body, exc |-> None]

\* What feedparser.parse hands back: an exception, or a parsed feed ("ok"), a
\* feed flagged bozo, or a feed with an entry that has no id ("missing_key").
FeedReply(body, feed) ==
    [kind |-> "feed", ids |-> feed.ids, rev |-> feed.rev, status |-> 0,
     remaining |-> None, body |-> body, exc |-> None]

NoFeed == [ids |-> <<>>, rev |-> 1]

\* The replies a provider may give to one request.
ProviderReplies(source) ==
    CASE source = "qiita" ->
           { HttpReply(200, None, "ok", f) : f \in ProviderFeeds("qiita") }
           \cup { HttpReply(200, None, "invalid_json", NoFeed),
                  HttpReply(200, None, "missing_key", NoFeed),
                  HttpReply(403, None, "none", NoFeed),
                  HttpReply(500, None, "none", NoFeed),
                  RaisedReply("ConnectionError"),
                  RaisedReply("Timeout") }
      [] source = "zenn" ->
           { FeedReply("ok", f) : f \in ProviderFeeds("zenn") }
           \cup { FeedReply("bozo", NoFeed),
                  FeedReply("missing_key", NoFeed),
                  RaisedReply("URLError") }
      [] source = "github" ->
           { HttpReply(200, None, "ok", f) : f \in ProviderFeeds("github") }
           \cup { HttpReply(200, None, "invalid_json", NoFeed),
                  HttpReply(200, None, "missing_key", NoFeed),
                  HttpReply(403, Some("0"), "none", NoFeed),
                  HttpReply(403, Some("5"), "none", NoFeed),
                  HttpReply(403, None, "none", NoFeed),
                  HttpReply(500, None, "none", NoFeed),
                  RaisedReply("ConnectionError") }

\* How a call ends: it returns items, raises a SourceError, or raises another
\* exception (named by its class).
ReturnsItems(items) ==
    [kind |-> "items", items |-> items, error |-> None, exc |-> None]

RaisesSourceError(source, error_type, message) ==
    [kind |-> "error", items |-> <<>>,
     error |-> Some(SourceError(source, error_type, message)), exc |-> None]

RaisesException(exc) ==
    [kind |-> "exception", items |-> <<>>, error |-> None, exc |-> Some(exc)]

\* The try block of QiitaHandler.fetch.
QiitaTry(reply, tags) ==
    IF reply.kind = "raise" THEN RaisesException(Value(reply.exc))
    ELSE IF reply.status = 403
         THEN RaisesSourceError("qiita", "rate_limit", "Qiita API rate limit exceeded")
    ELSE IF reply.status >= 400 THEN RaisesException("HTTPError")
    ELSE IF reply.body = "invalid_json" THEN RaisesException("JSONDecodeError")
    ELSE IF reply.body = "missing_key" THEN RaisesException("KeyError")
    ELSE ReturnsItems(HandlerItems("qiita", [ids |-> reply.ids, rev |-> reply.rev], tags))

\* The try block of ZennHandler.fetch.
ZennTry(reply, tags) ==
    IF reply.kind = "raise" THEN RaisesException(Value(reply.exc))
    ELSE IF reply.body = "bozo"
         THEN RaisesSourceError("zenn", "parse_error", "not well-formed")
    ELSE IF reply.body = "missing_key" THEN RaisesException("AttributeError")
    ELSE ReturnsItems(HandlerItems("zenn", [ids |-> reply.ids, rev |-> reply.rev], tags))

\* response.headers.get("X-RateLimit-Remaining", "0")
RateLimitRemaining(reply) ==
    IF reply.remaining = None THEN "0" ELSE Value(reply.remaining)

\* The try block of GitHubHandler.fetch.
GitHubTry(reply, tags) ==
    IF reply.kind = "raise" THEN RaisesException(Value(reply.exc))
    ELSE IF reply.status = 403 /\ RateLimitRemaining(reply) = "0"
         THEN RaisesSourceError("github", "rate_limit", "GitHub API rate limit exceeded")
    ELSE IF reply.status >= 400 THEN RaisesException("HTTPError")
    ELSE IF reply.body = "invalid_json" THEN RaisesException("JSONDecodeError")
    ELSE IF reply.body = "missing_key" THEN RaisesException("KeyError")
    ELSE ReturnsItems(HandlerItems("github", [ids |-> reply.ids, rev |-> reply.rev], tags))

\* Variant of ExceptClauses that catches only the requests exceptions.
ExceptClausesRequestsOnly(source, outcome) ==
    IF outcome.kind = "exception"
       /\ Value(outcome.exc) \in {"ConnectionError", "Timeout", "HTTPError"}
    THEN RaisesSourceError(source, "connection_error", Value(outcome.exc))
    ELSE outcome

\* except SourceError: raise / except Exception as e: raise SourceError(...)
ExceptClauses(source, outcome) ==
    IF outcome.kind = "exception"
    THEN RaisesSourceError(source, "connection_error", Value(outcome.exc))
    ELSE outcome

\* handler.fetch(tags) of the handler of a source, given the provider's reply.
Fetch(source, reply, tags) ==
    CASE source = "qiita" -> ExceptClauses("qiita", QiitaTry(reply, tags))
      [] source = "zenn" -> ExceptClauses("zenn", ZennTry(reply, tags))
      [] source = "github" -> ExceptClauses("github", GitHubTry(reply, tags))

---------------------------------------------------------------------------
(* DynamoDB: rows are keyed by (PK, SK); a query returns them in SK order *)

\* Position of the decimal string of k (1..99) in lexicographic string order.
LexKey(k) == IF k < 10 THEN k * 100 ELSE (k \div 10) * 100 + 1 + (k % 10)

SortKeyRank ==
    LET index == { <<DYNAMODB_SK_ITEM_PREFIX \o generate_news_id(s, ToString(k)),
                     LexKey(k)>> : s \in SourceType, k \in OriginalIds }
    IN  [sk \in {p[1] : p \in index} |-> (CHOOSE p \in index : p[1] = sk)[2]]

BeginsWith(str, prefix) ==
    Len(str) >= Len(prefix) /\ SubSeq(str, 1, Len(prefix)) = prefix

RECURSIVE SortBySK(_)
SortBySK(rows) ==
    IF rows = {} THEN <<>>
    ELSE LET first == CHOOSE r \in rows :
                          \A q \in rows : SortKeyRank[r.SK] <= SortKeyRank[q.SK]
         IN  <<first>> \o SortBySK(rows \ {first})

\* Variant of Query that matches the sort key prefix in every partition.
QueryEveryPartition(tbl, pk, prefix) ==
    SortBySK({r \in tbl : BeginsWith(r.SK, prefix)})

\* table.query(PK = pk AND begins_with(SK, prefix))["Items"]
Query(tbl, pk, prefix) ==
    SortBySK({r \in tbl : r.PK = pk /\ BeginsWith(r.SK, prefix)})

\* table.put_item(Item=row): replaces the row with the same key.
PutItem(tbl, row) ==
    {r \in tbl : ~(r.PK = row.PK /\ r.SK = row.SK)} \cup {row}

\* table.delete_item(Key={PK, SK})
DeleteItem(tbl, pk, sk) == {r \in tbl : ~(r.PK = pk /\ r.SK = sk)}

---------------------------------------------------------------------------
(* cache_manager.py *)

\* int(time.time())
IntTime(t) == t \div TicksPerSecond

\* Variant of CacheGet whose expiry test is ttl >= current_time.
CacheGetKeepsExpiring(tbl, source, now) ==
    LET pk == DYNAMODB_PK_PREFIX \o source
        items == Query(tbl, pk, DYNAMODB_SK_ITEM_PREFIX)
        current_time == IntTime(now)
        valid == SelectSeq(items, LAMBDA item : item.ttl >= current_time)
        valid_items == [i \in 1..Len(valid) |->
                           NewsItem(valid[i].id, valid[i].title, valid[i].url,
                                    valid[i].summary, valid[i].tags, valid[i].source)]
    IN  IF items = <<>> THEN None
        ELSE IF valid_items # <<>> THEN Some(valid_items) ELSE None

\* CacheManager.get(source) at clock reading now.
CacheGet(tbl, source, now) ==
    LET pk == DYNAMODB_PK_PREFIX \o source
        items == Query(tbl, pk, DYNAMODB_SK_ITEM_PREFIX)
        current_time == IntTime(now)
        valid == SelectSeq(items, LAMBDA item : item.ttl > current_time)
        valid_items == [i \in 1..Len(valid) |->
                           NewsItem(valid[i].id, valid[i].title, valid[i].url,
                                    valid[i].summary, valid[i].tags, valid[i].source)]
    IN  IF items = <<>> THEN None
        ELSE IF valid_items # <<>> THEN Some(valid_items) ELSE None

\* The row CacheManager.set writes for one item.
CacheRow(pk, item, ttl) ==
    [PK |-> pk, SK |-> DYNAMODB_SK_ITEM_PREFIX \o item.id,
     id |-> item.id, title |-> item.title, url |-> item.url,
     summary |-> item.summary, tags |-> item.tags, source |-> item.source,
     ttl |-> ttl]

RECURSIVE PutAll(_, _, _, _)
PutAll(tbl, pk, items_to_store, ttl) ==
    IF items_to_store = <<>> THEN tbl
    ELSE PutAll(PutItem(tbl, CacheRow(pk, Head(items_to_store), ttl)),
                pk, Tail(items_to_store), ttl)

\* Variant of ExpiryAt that counts the TTL in minutes.
ExpiryAtInMinutes(now) == IntTime(now) + CACHE_TTL_SECONDS \div 60

\* The expiry CacheManager.set stamps at clock reading now.
ExpiryAt(now) == IntTime(now) + CACHE_TTL_SECONDS

\* Variant of ItemsToStore that keeps the whole argument.
ItemsToStoreUncapped(items) == items

\* The items CacheManager.set keeps of its argument.
ItemsToStore(items) == SubSeq(items, 1, Min(Len(items), MAX_ITEMS_PER_SOURCE))

\* CacheManager.set(source, items) at clock reading now: the table afterwards.
CacheSet(tbl, source, items, now) ==
    LET pk == DYNAMODB_PK_PREFIX \o source
        ttl == ExpiryAt(now)
        items_to_store == ItemsToStore(items)
    IN  PutAll(tbl, pk, items_to_store, ttl)

RECURSIVE DeleteAll(_, _)
DeleteAll(tbl, keys) ==
    IF keys = <<>> THEN tbl
    ELSE DeleteAll(DeleteItem(tbl, Head(keys).PK, Head(keys).SK), Tail(keys))

\* Variant of CacheInvalidate that deletes only the first row the query lists.
CacheInvalidateFirstRow(tbl, source) ==
    LET pk == DYNAMODB_PK_PREFIX \o source
        items == Query(tbl, pk, DYNAMODB_SK_ITEM_PREFIX)
    IN  DeleteAll(tbl, Slice(items, 1))

\* CacheManager.invalidate(source): the table afterwards.
CacheInvalidate(tbl, source) ==
    LET pk == DYNAMODB_PK_PREFIX \o source
        items == Query(tbl, pk, DYNAMODB_SK_ITEM_PREFIX)
    IN  DeleteAll(tbl, items)

---------------------------------------------------------------------------
(* The cache on its own: CacheManager called directly, with time passing *)

\* The item lists a caller passes to CacheManager.set.
SetArguments(source) ==
    CASE source = "qiita" ->
           { HandlerItems("qiita", [ids |-> <<2, 1, 3>>, rev |-> 1], None),
             HandlerItems("qiita", [ids |-> <<2, 1, 3>>, rev |-> 2], None),
             HandlerItems("qiita", [ids |-> <<40, 41>>, rev |-> 1], None),
             HandlerItems("qiita",
                 [ids |-> UpTo(MAX_ITEMS_PER_SOURCE + 1), rev |-> 1], None),
             <<>> }
      [] source = "zenn" ->
           { HandlerItems("zenn", [ids |-> <<5, 4>>, rev |-> 1], None) }
      [] source = "github" -> {}

\* One entry of setlog: a set call, with the int(time.time()) it read.
SetCall(now, items) == [now |-> IntTime(now), items |-> items]

\* self._cache.set(source, items), called directly.
Set(source, items) ==
    /\ ncache < MaxSets
    /\ ncache' = ncache + 1
    /\ table' = CacheSet(table, source, items, clock)
    /\ setlog' = [setlog EXCEPT ![source] = Append(@, SetCall(clock, items))]
    /\ got' = None
    /\ UNCHANGED <<clock, clockSteps>>
    /\ UNCHANGED <<fetchVars, agentVars>>

\* self._cache.get(source), called directly.
Get(source) ==
    /\ got' = Some([source |-> source, at |-> clock,
                    result |-> CacheGet(table, source, clock)])
    /\ UNCHANGED <<clock, clockSteps, table, setlog, ncache>>
    /\ UNCHANGED <<fetchVars, agentVars>>

\* self._cache.invalidate(source), called directly.
Invalidate(source) ==
    /\ table' = CacheInvalidate(table, source)
    /\ table' # table
    /\ setlog' = [setlog EXCEPT ![source] = <<>>]
    /\ got' = None
    /\ UNCHANGED <<clock, clockSteps, ncache>>
    /\ UNCHANGED <<fetchVars, agentVars>>

\* Time passes: half a second, or up to half a second short of the TTL.
ClockAdvances == {1, CACHE_TTL_SECONDS * TicksPerSecond - 1}

Tick(d) ==
    /\ clockSteps < MaxClockSteps
    /\ clockSteps' = clockSteps + 1
    /\ clock' = clock + d
    /\ got' = None
    /\ UNCHANGED <<table, setlog, ncache>>
    /\ UNCHANGED <<fetchVars, agentVars>>

---------------------------------------------------------------------------
(* news_fetcher.py *)

\* The rows of a source that have not expired at clock reading now.
UnexpiredRows(tbl, source, now) ==
    {r \in tbl : r.PK = DYNAMODB_PK_PREFIX \o source
                 /\ r.ttl * TicksPerSecond > now}

\* A task submitted to the executor: _fetch_source(source, tags, force_refresh).
\*   pc        "queued", "handler", "set", "done", "collected", or "failed"
\*             (ended with an exception that is not a SourceError)
\*   cached    what self._cache.get returned
\*   unexpired the unexpired rows of the source at the time of that call
\*   fetched   what handler.fetch returned
\*   passed    the tags handler.fetch was called with
\*   stored    the items self._cache.set was called with
\*   error     the SourceError the task raised, if any
\*   result    what _fetch_source returned
\*   log       the calls the task made, in order
Future(source) ==
    [source |-> source, pc |-> "queued", cached |-> None, unexpired |-> {},
     fetched |-> <<>>, passed |-> None, stored |-> <<>>, error |-> None,
     result |-> <<>>, log |-> <<>>]

\* target_sources = sources or list(self._handlers.keys())
TargetSources(sources) ==
    IF sources = None \/ sources = Some(<<>>) THEN handlers ELSE Value(sources)

\* The futures dict: one task per target source that has a handler.
SubmittedFutures(target_sources) ==
    LET kept == SelectSeq(target_sources, LAMBDA src : src \in Range(handlers))
    IN  [i \in 1..Len(kept) |-> Future(kept[i])]

\* The argument values a caller passes to fetch.
FetchSources ==
    { None, Some(<<>>), Some(<<"qiita">>), Some(<<"zenn", "qiita">>),
      Some(<<"qiita", "qiita">>) }
FetchTags == { None, Some(<<"python">>) }

\* fetch(sources, tags, force_refresh) up to the submission of the tasks.
FetchSubmit(sources, tags, force_refresh) ==
    /\ phase = "idle"
    /\ nfetch' = nfetch + 1
    /\ phase' = "running"
    /\ call' = [sources |-> sources, tags |-> tags, force_refresh |-> force_refresh]
    /\ futures' = SubmittedFutures(TargetSources(sources))
    /\ all_items' = <<>>
    /\ all_errors' = <<>>
    /\ response' = None
    /\ UNCHANGED <<fetchlog, fetcher, handlers>>
    /\ UNCHANGED <<cacheVars, agentVars>>

\* A fetch call, as long as the behaviour has calls left.
FetchStart(sources, tags, force_refresh) ==
    /\ nfetch < MaxFetches
    /\ FetchSubmit(sources, tags, force_refresh)

\* Tasks a pool thread is running (started and not finished).
Running == {i \in DOMAIN futures : futures[i].pc \in {"handler", "set"}}

\* A pool thread is free to take queued task i: the pool has MAX_WORKERS threads
\* and hands out the queued tasks in submission order.
MayStart(i) ==
    /\ futures[i].pc = "queued"
    /\ \A j \in 1..(i - 1) : futures[j].pc # "queued"
    /\ Cardinality(Running) < MAX_WORKERS

\* Variant of WorkerCacheGet that reads the cache and calls the handler anyway.
WorkerCacheGetIgnoresHit(i) ==
    /\ phase = "running"
    /\ MayStart(i)
    /\ ~call.force_refresh
    /\ futures' = [futures EXCEPT
           ![i].cached = None,
           ![i].unexpired = UnexpiredRows(table, futures[i].source, clock),
           ![i].log = Append(@, "cache.get"),
           ![i].pc = "handler"]
    /\ UNCHANGED <<fetchlog, fetcher, handlers, phase, call, all_items, all_errors, response, nfetch>>
    /\ UNCHANGED <<cacheVars, agentVars>>

\* if not force_refresh: cached = self._cache.get(source);
\*                       if cached is not None: return cached
WorkerCacheGet(i) ==
    /\ phase = "running"
    /\ MayStart(i)
    /\ ~call.force_refresh
    /\ LET cached == CacheGet(table, futures[i].source, clock)
       IN  futures' = [futures EXCEPT
               ![i].cached = cached,
               ![i].unexpired = UnexpiredRows(table, futures[i].source, clock),
               ![i].log = Append(@, "cache.get"),
               ![i].result = IF cached # None THEN Value(cached) ELSE <<>>,
               ![i].pc = IF cached # None THEN "done" ELSE "handler"]
    /\ UNCHANGED <<fetchlog, fetcher, handlers, phase, call, all_items, all_errors, response, nfetch>>
    /\ UNCHANGED <<cacheVars, agentVars>>

\* The task is at `handler = self._handlers[source]`.
AtHandler(i) ==
    \/ futures[i].pc = "handler"
    \/ MayStart(i) /\ call.force_refresh

\* items = handler.fetch(tags=tags): returns a list or raises SourceError
WorkerHandlerFetch(i) ==
    /\ phase = "running"
    /\ AtHandler(i)
    /\ \E o \in HandlerOutcomes(futures[i].source, call.tags) :
          futures' = [futures EXCEPT
              ![i].fetched = o.items,
              ![i].passed = call.tags,
              ![i].error = o.error,
              ![i].log = Append(@, "handler.fetch"),
              ![i].pc = IF o.kind = "items" THEN "set" ELSE "done"]
    /\ UNCHANGED <<fetchlog, fetcher, handlers, phase, call, all_items, all_errors, response, nfetch>>
    /\ UNCHANGED <<cacheVars, agentVars>>

\* Variant of WorkerCacheSet that returns the items without writing the cache.
WorkerCacheSetSkipsWrite(i) ==
    /\ phase = "running"
    /\ futures[i].pc = "set"
    /\ futures' = [futures EXCEPT
           ![i].result = futures[i].fetched,
           ![i].pc = "done"]
    /\ UNCHANGED <<fetchlog, fetcher, handlers, phase, call, all_items, all_errors, response, nfetch>>
    /\ UNCHANGED <<cacheVars, agentVars>>

\* self._cache.set(source, items); return items
WorkerCacheSet(i) ==
    /\ phase = "running"
    /\ futures[i].pc = "set"
    /\ table' = CacheSet(table, futures[i].source, futures[i].fetched, clock)
    /\ setlog' = [setlog EXCEPT ![futures[i].source] =
                     Append(@, SetCall(clock, futures[i].fetched))]
    /\ futures' = [futures EXCEPT
           ![i].stored = futures[i].fetched,
           ![i].log = Append(@, "cache.set"),
           ![i].result = futures[i].fetched,
           ![i].pc = "done"]
    /\ UNCHANGED <<clock, clockSteps, ncache, got>>
    /\ UNCHANGED <<fetchlog, fetcher, handlers, phase, call, all_items, all_errors, response, nfetch>>
    /\ UNCHANGED agentVars

\* Variant of Collect in which one source's error discards the items collected.
CollectDropsItemsOnError(i) ==
    /\ phase = "running"
    /\ futures[i].pc = "done"
    /\ IF futures[i].error = None
       THEN /\ all_items' = all_items \o futures[i].result
            /\ UNCHANGED all_errors
       ELSE /\ all_errors' = Append(all_errors, Value(futures[i].error))
            /\ all_items' = <<>>
    /\ futures' = [futures EXCEPT ![i].pc = "collected"]
    /\ UNCHANGED <<fetchlog, fetcher, handlers, phase, call, response, nfetch>>
    /\ UNCHANGED <<cacheVars, agentVars>>

\* One round of `for future in as_completed(futures)`.
Collect(i) ==
    /\ phase = "running"
    /\ futures[i].pc = "done"
    /\ IF futures[i].error = None
       THEN /\ all_items' = all_items \o futures[i].result
            /\ UNCHANGED all_errors
       ELSE /\ all_errors' = Append(all_errors, Value(futures[i].error))
            /\ UNCHANGED all_items
    /\ futures' = [futures EXCEPT ![i].pc = "collected"]
    /\ UNCHANGED <<fetchlog, fetcher, handlers, phase, call, response, nfetch>>
    /\ UNCHANGED <<cacheVars, agentVars>>

\* Variant of FetchReturn that returns the error list as it is, empty or not.
FetchReturnKeepsEmptyErrors ==
    /\ phase = "running"
    /\ \A i \in DOMAIN futures : futures[i].pc = "collected"
    /\ response' = Some(FetchNewsResponse(all_items, Some(all_errors)))
    /\ phase' = "idle"
    /\ UNCHANGED <<fetchlog, fetcher, handlers, call, futures, all_items, all_errors, nfetch>>
    /\ UNCHANGED <<cacheVars, agentVars>>

\* return FetchNewsResponse(items=all_items, errors=all_errors or None)
FetchReturn ==
    /\ phase = "running"
    /\ \A i \in DOMAIN futures : futures[i].pc = "collected"
    /\ response' = Some(FetchNewsResponse(all_items,
                            IF all_errors # <<>> THEN Some(all_errors) ELSE None))
    /\ phase' = "idle"
    /\ UNCHANGED <<fetchlog, fetcher, handlers, call, futures, all_items, all_errors, nfetch>>
    /\ UNCHANGED <<cacheVars, agentVars>>

\* The handler dicts a NewsFetcher is constructed with (handler.py builds the
\* Qiita and GitHub handlers only when their tokens are configured).
HandlerConfigs == { <<"qiita", "zenn", "github">>, <<"zenn", "github">> }

---------------------------------------------------------------------------
(* Initial states and specifications *)

\* The set calls of earlier invocations that filled the table, all at time 0:
\* the table outlives the process that constructs the fetcher.
EarlierSets ==
    { <<>>,
      << [source |-> "qiita", items |->
             HandlerItems("qiita", [ids |-> <<2, 1, 3>>, rev |-> 1], None)] >>,
      << [source |-> "qiita", items |->
             HandlerItems("qiita", [ids |-> <<1, 3>>, rev |-> 1], None)],
         [source |-> "zenn", items |->
             HandlerItems("zenn", [ids |-> <<5, 4>>, rev |-> 1], None)] >> }

\* The clock readings at which a fetcher is constructed and used.
InvocationTimes ==
    { 0, CACHE_TTL_SECONDS * TicksPerSecond - 1, CACHE_TTL_SECONDS * TicksPerSecond }

RECURSIVE TableAfter(_, _)
TableAfter(tbl, sets) ==
    IF sets = <<>> THEN tbl
    ELSE TableAfter(CacheSet(tbl, Head(sets).source, Head(sets).items, 0), Tail(sets))

SetLogAfter(sets) ==
    [s \in SourceType |->
        LET mine == SelectSeq(sets, LAMBDA c : c.source = s)
        IN  [i \in 1..Len(mine) |-> SetCall(0, mine[i].items)]]

CacheIdle ==
    /\ clock = 0
    /\ clockSteps = 0
    /\ table = {}
    /\ setlog = [s \in SourceType |-> <<>>]
    /\ ncache = 0
    /\ got = None

FetcherIdle ==
    /\ fetcher = None
    /\ handlers = <<"qiita", "zenn", "github">>
    /\ phase = "idle"
    /\ call = [sources |-> None, tags |-> None, force_refresh |-> FALSE]
    /\ futures = <<>>
    /\ all_items = <<>>
    /\ all_errors = <<>>
    /\ response = None
    /\ nfetch = 0
    /\ fetchlog = <<>>

AgentIdle ==
    /\ catalog = <<>>
    /\ session = <<>>
    /\ last = None
    /\ history = <<>>
    /\ ncalls = 0
    /\ prev = None
    /\ ret = None
    /\ threads = <<>>

\* A NewsFetcher over a table that earlier invocations may have filled.
FetcherReady ==
    /\ clock \in InvocationTimes
    /\ clockSteps = 0
    /\ \E sets \in EarlierSets :
          /\ table = TableAfter({}, sets)
          /\ setlog = SetLogAfter(sets)
    /\ ncache = 0
    /\ got = None
    /\ handlers \in HandlerConfigs
    /\ phase = "idle"
    /\ call = [sources |-> None, tags |-> None, force_refresh |-> FALSE]
    /\ futures = <<>>
    /\ all_items = <<>>
    /\ all_errors = <<>>
    /\ response = None
    /\ nfetch = 0
    /\ fetchlog = <<>>
    /\ AgentIdle

\* fetch called on a NewsFetcher the caller constructed (the module global of
\* handler.py is not involved).
Init == FetcherReady /\ fetcher = None

Next ==
    \/ \E sources \in FetchSources, tags \in FetchTags, force_refresh \in BOOLEAN :
          FetchStart(sources, tags, force_refresh)
    \/ \E i \in DOMAIN futures : WorkerCacheGet(i)
    \/ \E i \in DOMAIN futures : WorkerHandlerFetch(i)
    \/ \E i \in DOMAIN futures : WorkerCacheSet(i)
    \/ \E i \in DOMAIN futures : Collect(i)
    \/ FetchReturn

Spec == Init /\ [][Next]_vars

\* CacheManager alone, from an empty table.
CacheInit == CacheIdle /\ FetcherIdle /\ AgentIdle

CacheNext ==
    \/ \E source \in SourceType : \E items \in SetArguments(source) : Set(source, items)
    \/ \E source \in SourceType : Get(source)
    \/ \E source \in SourceType : Invalidate(source)
    \/ \E d \in ClockAdvances : Tick(d)

CacheSpec == CacheInit /\ [][CacheNext]_vars

---------------------------------------------------------------------------
(* news_fetcher.py when a table request fails: boto3 raises ClientError *)

\* self._cache.get(source) raises: the query failed.  The exception is not a
\* SourceError; it ends the task (pc "failed").
WorkerCacheGetRaises(i) ==
    /\ phase = "running"
    /\ MayStart(i)
    /\ ~call.force_refresh
    /\ futures' = [futures EXCEPT
           ![i].log = Append(@, "cache.get"),
           ![i].pc = "failed"]
    /\ UNCHANGED <<fetchlog, fetcher, handlers, phase, call, all_items, all_errors, response, nfetch>>
    /\ UNCHANGED <<cacheVars, agentVars>>

\* self._cache.set(source, items) raises: one put_item of the loop failed, after
\* the rows of the items before it were written.
WorkerCacheSetRaises(i) ==
    /\ phase = "running"
    /\ futures[i].pc = "set"
    /\ \E items_to_store \in {ItemsToStore(futures[i].fetched)} :
       \E k \in 1..Len(items_to_store) :
          /\ table' = PutAll(table, DYNAMODB_PK_PREFIX \o futures[i].source,
                             SubSeq(items_to_store, 1, k - 1), ExpiryAt(clock))
          /\ setlog' = [setlog EXCEPT ![futures[i].source] =
                           Append(@, SetCall(clock, SubSeq(items_to_store, 1, k - 1)))]
    /\ futures' = [futures EXCEPT
           ![i].log = Append(@, "cache.set"),
           ![i].pc = "failed"]
    /\ UNCHANGED <<clock, clockSteps, ncache, got>>
    /\ UNCHANGED <<fetchlog, fetcher, handlers, phase, call, all_items, all_errors, response, nfetch>>
    /\ UNCHANGED agentVars

\* Task i has ended: it returned, raised, or its result was collected.
Finished(i) == futures[i].pc \in {"done", "failed", "collected"}

\* future.result() raises an exception that `except SourceError` does not
\* catch: it leaves the for loop, the with block waits for the tasks to end
\* (shutdown(wait=True)), and the exception leaves fetch (phase "raised").
FetchRaise(i) ==
    /\ phase = "running"
    /\ futures[i].pc = "failed"
    /\ \A j \in DOMAIN futures : Finished(j)
    /\ phase' = "raised"
    /\ UNCHANGED <<fetchlog, fetcher, handlers, call, futures, all_items, all_errors, response,
                   nfetch>>
    /\ UNCHANGED <<cacheVars, agentVars>>

\* A step of a pool thread or of the thread that called fetch.
FetchProgress ==
    \/ \E i \in DOMAIN futures : WorkerCacheGet(i)
    \/ \E i \in DOMAIN futures : WorkerCacheGetRaises(i)
    \/ \E i \in DOMAIN futures : WorkerHandlerFetch(i)
    \/ \E i \in DOMAIN futures : WorkerCacheSet(i)
    \/ \E i \in DOMAIN futures : WorkerCacheSetRaises(i)
    \/ \E i \in DOMAIN futures : Collect(i)
    \/ \E i \in DOMAIN futures : FetchRaise(i)
    \/ FetchReturn

FaultNext ==
    \/ \E sources \in FetchSources, tags \in FetchTags, force_refresh \in BOOLEAN :
          FetchStart(sources, tags, force_refresh)
    \/ FetchProgress

\* Every call of a handler or of the table returns or raises, and every thread
\* goes on running: a step that stays possible is taken.
FaultSpec == Init /\ [][FaultNext]_vars /\ WF_vars(FetchProgress)

---------------------------------------------------------------------------
(* news_fetcher.py: one fetch call after another on the same table *)

\* The arguments of the calls that follow one another.
RefetchSources == { Some(<<"qiita">>), Some(<<"zenn", "qiita">>) }

\* A fetch call, the first or a later one.
Refetch(sources, tags, force_refresh) ==
    /\ nfetch < MaxRefetches
    /\ FetchSubmit(sources, tags, force_refresh)

\* One entry of fetchlog: a fetch call that returned at clock reading `at`.
FetchRecord(args, at, tasks, returned) ==
    [sources |-> args.sources, tags |-> args.tags,
     force_refresh |-> args.force_refresh, at |-> at,
     items |-> returned.items, errors |-> returned.errors, futures |-> tasks]

\* return FetchNewsResponse(...), the call kept for the calls that follow.
RefetchReturn ==
    /\ phase = "running"
    /\ \A i \in DOMAIN futures : futures[i].pc = "collected"
    /\ response' = Some(FetchNewsResponse(all_items,
                            IF all_errors # <<>> THEN Some(all_errors) ELSE None))
    /\ fetchlog' = Append(fetchlog, FetchRecord(call, clock, futures, Value(response')))
    /\ phase' = "idle"
    /\ UNCHANGED <<fetcher, handlers, call, futures, all_items, all_errors, nfetch>>
    /\ UNCHANGED <<cacheVars, agentVars>>

\* Time passes between two fetch calls.
Pause(d) ==
    /\ phase = "idle"
    /\ Tick(d)

\* A NewsFetcher with all three handlers, at time 0, over a table that earlier
\* invocations may have filled.
RefetchInit ==
    /\ Init
    /\ handlers = <<"qiita", "zenn", "github">>
    /\ clock = 0

RefetchNext ==
    \/ \E sources \in RefetchSources, tags \in FetchTags, force_refresh \in BOOLEAN :
          Refetch(sources, tags, force_refresh)
    \/ \E d \in ClockAdvances : Pause(d)
    \/ \E i \in DOMAIN futures : WorkerCacheGet(i)
    \/ \E i \in DOMAIN futures : WorkerHandlerFetch(i)
    \/ \E i \in DOMAIN futures : WorkerCacheSet(i)
    \/ \E i \in DOMAIN futures : Collect(i)
    \/ RefetchReturn

RefetchSpec == RefetchInit /\ [][RefetchNext]_vars

---------------------------------------------------------------------------
(* agent/bytesip_agent/memory.py: ProposedIdsManager over the session *)

\* The first occurrences of the elements of a list, in order.
RECURSIVE FirstOccurrences(_)
FirstOccurrences(ids) ==
    IF ids = <<>> THEN <<>>
    ELSE LET front == FirstOccurrences(SubSeq(ids, 1, Len(ids) - 1))
             x == ids[Len(ids)]
         IN  IF x \in Range(front) THEN front ELSE Append(front, x)

\* get_proposed_ids(): attrs.get("proposed_ids", [])
get_proposed_ids(attrs) == attrs

\* Variant of filter_unproposed that filters nothing out.
filter_unproposed_keeps_all(attrs, ids) == ids

\* Variant of filter_unproposed that goes through a set of the input ids.
filter_unproposed_dedups(attrs, ids) ==
    LET proposed == Range(get_proposed_ids(attrs))
    IN  FirstOccurrences(SelectSeq(ids, LAMBDA id : id \notin proposed))

\* filter_unproposed(ids)
filter_unproposed(attrs, ids) ==
    LET proposed == Range(get_proposed_ids(attrs))
    IN  SelectSeq(ids, LAMBDA id : id \notin proposed)

\* is_proposed(news_id)
is_proposed(attrs, news_id) == news_id \in Range(get_proposed_ids(attrs))

Reverse(seq) == [i \in 1..Len(seq) |-> seq[Len(seq) + 1 - i]]

\* list(existing) for existing = set(ids): Python fixes no order for the
\* elements of a set.  Every order is produced for up to MaxPermuted
\* elements; for more, the order of first occurrence and its reverse.
ListOfSet(ids) ==
    LET existing == Range(ids)
        n == Cardinality(existing)
    IN  IF n <= MaxPermuted
        THEN {o \in [1..n -> existing] : \A i, j \in 1..n : o[i] = o[j] => i = j}
        ELSE {FirstOccurrences(ids), Reverse(FirstOccurrences(ids))}

\* Variant of record_proposed_ids that stores the new ids in place of the list.
record_proposed_ids_replaces(attrs, ids) ==
    LET existing == Range(get_proposed_ids(attrs))
    IN  {SelectSeq(ids, LAMBDA id : id \notin existing)}

\* Variant of record_proposed_ids that stores the input list as it is.
record_proposed_ids_overwrites(attrs, ids) == {ids}

\* Variant of record_proposed_ids that puts the new ids in front.
record_proposed_ids_prepends(attrs, ids) ==
    LET existing == Range(get_proposed_ids(attrs))
        new_ids == SelectSeq(ids, LAMBDA id : id \notin existing)
    IN  {new_ids \o listed : listed \in ListOfSet(get_proposed_ids(attrs))}

\* record_proposed_ids(ids): the lists it may store.
record_proposed_ids(attrs, ids) ==
    LET existing == Range(get_proposed_ids(attrs))
        new_ids == SelectSeq(ids, LAMBDA id : id \notin existing)
    IN  {listed \o new_ids : listed \in ListOfSet(get_proposed_ids(attrs))}

---------------------------------------------------------------------------
(* agent/bytesip_agent/agent.py: ByteSipAgent.get_news *)

\* NewsResponse
NewsResponse(items, has_more) == [items |-> items, has_more |-> has_more]

\* [item.id for item in items]
Ids(items) == [i \in 1..Len(items) |-> items[i].id]

\* The keys of items_by_source, in insertion order.
RECURSIVE SourcesInOrder(_)
SourcesInOrder(items) ==
    IF items = <<>> THEN <<>>
    ELSE LET front == SourcesInOrder(SubSeq(items, 1, Len(items) - 1))
             src == items[Len(items)].source
         IN  IF src \in Range(front) THEN front ELSE Append(front, src)

\* Variant of ItemsBySource without the per-source limit.
ItemsBySourceUncapped(unproposed_items, source) ==
    SelectSeq(unproposed_items, LAMBDA item : item.source = source)

\* items_by_source[source]: an item is appended while the list of its source
\* is shorter than MAX_PER_SOURCE.
ItemsBySource(unproposed_items, source) ==
    Slice(SelectSeq(unproposed_items, LAMBDA item : item.source = source),
          MAX_PER_SOURCE)

\* limited_items before sorting: the lists of items_by_source.values(), extended
\* in turn.
RECURSIVE Flatten(_, _)
Flatten(unproposed_items, srcs) ==
    IF srcs = <<>> THEN <<>>
    ELSE ItemsBySource(unproposed_items, Head(srcs))
             \o Flatten(unproposed_items, Tail(srcs))

\* original_order = {item.id: i for i, item in enumerate(unproposed_items)}:
\* a repeated id keeps its last index.
OriginalOrder(unproposed_items) ==
    [id \in Range(Ids(unproposed_items)) |->
        MaxOf({i \in DOMAIN unproposed_items : unproposed_items[i].id = id}) - 1]

\* list.sort(key=lambda x: original_order.get(x.id, 0)): stable, ascending.
RECURSIVE SortByOrder(_, _)
SortByOrder(items, original_order) ==
    IF items = <<>> THEN <<>>
    ELSE LET front == SortByOrder(SubSeq(items, 1, Len(items) - 1), original_order)
             x == items[Len(items)]
             key(item) == IF item.id \in DOMAIN original_order
                          THEN original_order[item.id] ELSE 0
             keep == Cardinality({i \in DOMAIN front : key(front[i]) <= key(x)})
         IN  SubSeq(front, 1, keep) \o <<x>> \o SubSeq(front, keep + 1, Len(front))

\* The underlying item sets behind the fetch function: three items of one
\* source, twenty of one source, 34 of three sources interleaved (12, 11 and
\* 11), one source's items delivered twice over, and nothing.
SourceAt(k) == IF k % 3 = 1 THEN "qiita" ELSE IF k % 3 = 2 THEN "zenn" ELSE "github"
Catalogs ==
    { [i \in 1..3 |-> FeedItem("qiita", <<2, 1, 3>>[i], 1)],
      [i \in 1..20 |-> FeedItem("qiita", i, 1)],
      [i \in 1..34 |-> FeedItem(SourceAt(i), i, 1)],
      [i \in 1..4 |-> FeedItem("qiita", <<1, 2, 1, 2>>[i], 1)],
      <<>> }

\* self._fetch(sources=sources, tags=tags, force_refresh=False)["items"]: the
\* items of the requested sources (all when none is named) carrying one of
\* the requested tags.
FetchNews(sources, tags) ==
    LET wanted == IF sources = None \/ sources = Some(<<>>) THEN SourceType
                  ELSE Range(Value(sources))
        tagged(item) ==
            \/ tags = None
            \/ tags = Some(<<>>)
            \/ \E i \in DOMAIN item.tags, j \in DOMAIN Value(tags) :
                  Lower(item.tags[i]) = Lower(Value(tags)[j])
    IN  SelectSeq(catalog, LAMBDA item : item.source \in wanted /\ tagged(item))

\* The arguments a caller passes to get_news.
AgentSources == { None, Some(<<"qiita">>) }
AgentTags == { None, Some(<<"python">>) }
AgentLimits == { -1, 0, 5, DEFAULT_LIMIT, 50 }

\* effective_limit = min(limit, MAX_TOTAL); final_items = limited_items[:effective_limit]
FinalItems(limited_items, limit) == Slice(limited_items, Min(limit, MAX_TOTAL))

\* Variant of TotalAvailable that counts every unproposed item.
TotalAvailableUncapped(unproposed_items, srcs) == Len(unproposed_items)

\* total_available = sum(min(len(items), MAX_PER_SOURCE) for items in items_by_source.values())
RECURSIVE TotalAvailable(_, _)
TotalAvailable(unproposed_items, srcs) ==
    IF srcs = <<>> THEN 0
    ELSE Min(Len(ItemsBySource(unproposed_items, Head(srcs))), MAX_PER_SOURCE)
             + TotalAvailable(unproposed_items, Tail(srcs))

\* Variant of RecordFinalItems that writes also when nothing is returned.
RecordFinalItemsAlways(attrs, final_items) ==
    record_proposed_ids(attrs, Ids(final_items))

\* if final_items: self._memory.record_proposed_ids([item.id for item in final_items])
\* The session attributes afterwards.
RecordFinalItems(attrs, final_items) ==
    IF final_items # <<>>
    THEN record_proposed_ids(attrs, Ids(final_items))
    ELSE {attrs}

\* One entry of `last`.
AgentCall(sources, tags, limit, fetched, result, proposed) ==
    [sources |-> sources, tags |-> tags, limit |-> limit,
     fetched |-> fetched, result |-> result, proposed |-> proposed]

\* ByteSipAgent.get_news(sources, tags, limit); each local of the method is
\* bound in turn to its value.
GetNews(sources, tags, limit) ==
    /\ ncalls < MaxCalls
    /\ ncalls' = ncalls + 1
    /\ \E all_items_ \in {FetchNews(sources, tags)} :
       \E unproposed_ids \in {Range(filter_unproposed(session, Ids(all_items_)))} :
       \E unproposed_items \in
              {SelectSeq(all_items_, LAMBDA item : item.id \in unproposed_ids)} :
       \E srcs \in {SourcesInOrder(unproposed_items)} :
       \E original_order \in {OriginalOrder(unproposed_items)} :
       \E limited_items \in
              {SortByOrder(Flatten(unproposed_items, srcs), original_order)} :
       \E final_items \in {FinalItems(limited_items, limit)} :
       \E total_available \in {TotalAvailable(unproposed_items, srcs)} :
       \E has_more \in {Len(final_items) < total_available} :
           /\ session' \in RecordFinalItems(session, final_items)
           /\ last' = Some(AgentCall(sources, tags, limit, all_items_,
                                     NewsResponse(final_items, has_more), session))
           /\ history' = Append(history, Ids(final_items))
    /\ prev' = last
    /\ ret' = None
    /\ UNCHANGED <<catalog, threads>>
    /\ UNCHANGED <<cacheVars, fetchVars>>

\* ProposedIdsManager.clear(): a new round of calls starts.
Clear ==
    /\ ncalls < MaxCalls
    /\ ncalls' = ncalls + 1
    /\ session # <<>>
    /\ session' = <<>>
    /\ last' = None
    /\ history' = <<>>
    /\ prev' = None
    /\ ret' = None
    /\ UNCHANGED <<catalog, threads>>
    /\ UNCHANGED <<cacheVars, fetchVars>>

\* A new session over one of the underlying item sets.
AgentInit ==
    /\ CacheIdle
    /\ FetcherIdle
    /\ catalog \in Catalogs
    /\ session = <<>>
    /\ last = None
    /\ history = <<>>
    /\ ncalls = 0
    /\ prev = None
    /\ ret = None
    /\ threads = <<>>

AgentNext ==
    \/ \E sources \in AgentSources, tags \in AgentTags, limit \in AgentLimits :
          GetNews(sources, tags, limit)
    \/ Clear

AgentSpec == AgentInit /\ [][AgentNext]_vars

---------------------------------------------------------------------------
(* ProposedIdsManager called directly, between get_news calls *)

\* The id lists a caller passes to record_proposed_ids and filter_unproposed.
MemoryIds ==
    { <<>>,
      <<"qiita_1">>,
      <<"qiita_3", "zenn_5">>,
      <<"qiita_2", "qiita_1", "qiita_2">> }

\* One entry of `ret`.
MemoryCall(kind, result, ids, proposed) ==
    [kind |-> kind, result |-> result, ids |-> ids, proposed |-> proposed]

\* self._memory.record_proposed_ids(ids), called directly.
RecordIds(ids) ==
    /\ ncalls < MaxCalls
    /\ ncalls' = ncalls + 1
    /\ session' \in record_proposed_ids(session, ids)
    /\ ret' = Some(MemoryCall("record_proposed_ids", None, ids, session))
    /\ UNCHANGED <<catalog, last, history, prev, threads>>
    /\ UNCHANGED <<cacheVars, fetchVars>>

\* self._memory.filter_unproposed(ids), called directly.
FilterUnproposed(ids) ==
    /\ ncalls < MaxCalls
    /\ ncalls' = ncalls + 1
    /\ ret' = Some(MemoryCall("filter_unproposed",
                              filter_unproposed(session, ids), ids, session))
    /\ UNCHANGED <<catalog, session, last, history, prev, threads>>
    /\ UNCHANGED <<cacheVars, fetchVars>>

\* self._memory.is_proposed(news_id), called directly.
IsProposed(news_id) ==
    /\ ncalls < MaxCalls
    /\ ncalls' = ncalls + 1
    /\ ret' = Some(MemoryCall("is_proposed",
                              is_proposed(session, news_id), <<news_id>>, session))
    /\ UNCHANGED <<catalog, session, last, history, prev, threads>>
    /\ UNCHANGED <<cacheVars, fetchVars>>

\* A new session over one of the smaller item sets.
MemoryInit == AgentInit /\ Len(catalog) <= MaxCatalog

MemoryNext ==
    \/ \E sources \in AgentSources, limit \in {1, DEFAULT_LIMIT} :
          GetNews(sources, None, limit)
    \/ Clear
    \/ \E ids \in MemoryIds : RecordIds(ids)
    \/ \E ids \in MemoryIds : FilterUnproposed(ids)
    \/ \E news_id \in {"qiita_1", "zenn_5"} : IsProposed(news_id)

MemorySpec == MemoryInit /\ [][MemoryNext]_vars

---------------------------------------------------------------------------
(* Two callers on one session: get_news and record_proposed_ids in steps *)

\* A caller of the session, at one of its accesses to the session attributes.
\*   limit     the limit argument of get_news
\*   kind      "get_news" or "record_proposed_ids"
\*   pc        "filter": before filter_unproposed reads the attributes;
\*             "read": before record_proposed_ids reads them;
\*             "write": before update_session_attributes; "done": returned
\*   result    the ids of the items get_news returns
\*   ids       the argument of record_proposed_ids
\*   proposed  what get_proposed_ids returned to record_proposed_ids
\*   alone     no other call was in progress when this one began
Thread(kind, limit, ids, pc) ==
    [limit |-> limit, kind |-> kind, pc |-> pc, result |-> <<>>, ids |-> ids,
     proposed |-> <<>>,
     alone |-> \A u \in DOMAIN threads : threads[u].pc = "done"]

\* A caller enters get_news(None, None, limit).
BeginGetNews(limit) ==
    /\ Len(threads) < MaxThreads
    /\ threads' = Append(threads, Thread("get_news", limit, <<>>, "filter"))
    /\ UNCHANGED <<catalog, session, last, history, ncalls, prev, ret>>
    /\ UNCHANGED <<cacheVars, fetchVars>>

\* A caller enters record_proposed_ids(ids).
BeginRecord(ids) ==
    /\ Len(threads) < MaxThreads
    /\ threads' = Append(threads, Thread("record_proposed_ids", 0, ids, "read"))
    /\ UNCHANGED <<catalog, session, last, history, ncalls, prev, ret>>
    /\ UNCHANGED <<cacheVars, fetchVars>>

\* get_news from the fetch to the test `if final_items`: filter_unproposed
\* reads the session attributes once; the rest works on locals.
ThreadFilter(t) ==
    /\ threads[t].pc = "filter"
    /\ \E all_items_ \in {FetchNews(None, None)} :
       \E unproposed_ids \in {Range(filter_unproposed(session, Ids(all_items_)))} :
       \E unproposed_items \in
              {SelectSeq(all_items_, LAMBDA item : item.id \in unproposed_ids)} :
       \E srcs \in {SourcesInOrder(unproposed_items)} :
       \E limited_items \in
              {SortByOrder(Flatten(unproposed_items, srcs),
                           OriginalOrder(unproposed_items))} :
       \E final_items \in {FinalItems(limited_items, threads[t].limit)} :
           threads' = [threads EXCEPT
               ![t].result = Ids(final_items),
               ![t].ids = Ids(final_items),
               ![t].pc = IF final_items # <<>> THEN "read" ELSE "done"]
    /\ UNCHANGED <<catalog, session, last, history, ncalls, prev, ret>>
    /\ UNCHANGED <<cacheVars, fetchVars>>

\* Variant of ThreadRead that takes the stored list to be empty.
ThreadReadsNothing(t) ==
    /\ threads[t].pc = "read"
    /\ threads' = [threads EXCEPT ![t].proposed = <<>>, ![t].pc = "write"]
    /\ UNCHANGED <<catalog, session, last, history, ncalls, prev, ret>>
    /\ UNCHANGED <<cacheVars, fetchVars>>

\* record_proposed_ids: existing = set(self.get_proposed_ids())
ThreadRead(t) ==
    /\ threads[t].pc = "read"
    /\ threads' = [threads EXCEPT
           ![t].proposed = get_proposed_ids(session),
           ![t].pc = "write"]
    /\ UNCHANGED <<catalog, session, last, history, ncalls, prev, ret>>
    /\ UNCHANGED <<cacheVars, fetchVars>>

\* record_proposed_ids: updated = list(existing) + new_ids, computed from the
\* list read before, then update_session_attributes; the call returns.
ThreadWrite(t) ==
    /\ threads[t].pc = "write"
    /\ session' \in record_proposed_ids(threads[t].proposed, threads[t].ids)
    /\ threads' = [threads EXCEPT ![t].pc = "done"]
    /\ UNCHANGED <<catalog, last, history, ncalls, prev, ret>>
    /\ UNCHANGED <<cacheVars, fetchVars>>

\* The limits the concurrent callers pass to get_news.
ThreadLimits == {1, 2}

RaceInit == MemoryInit

RaceNext ==
    \/ \E limit \in ThreadLimits : BeginGetNews(limit)
    \/ \E ids \in MemoryIds : BeginRecord(ids)
    \/ \E t \in DOMAIN threads : ThreadFilter(t)
    \/ \E t \in DOMAIN threads : ThreadRead(t)
    \/ \E t \in DOMAIN threads : ThreadWrite(t)

RaceSpec == RaceInit /\ [][RaceNext]_vars

---------------------------------------------------------------------------
(* Two callers on one table: set and invalidate, one table request a step *)

\* A caller of CacheManager.set or CacheManager.invalidate.
\*   source  the source argument
\*   ttl     the expiry set computed on entry
\*   kind    "set" or "invalidate"
\*   items   set: items_to_store; invalidate: the rows its query returned
\*   pc      "query": before invalidate's query; "loop": in the for loop;
\*           "done": returned
\*   alone   no other call was in progress when this one began
\*   next    the index of the element the for loop handles next
CacheCall(kind, source, ttl, items, pc) ==
    [source |-> source, ttl |-> ttl, kind |-> kind, items |-> items, pc |-> pc,
     alone |-> \A u \in DOMAIN threads : threads[u].pc = "done",
     next |-> 1]

\* The item lists the concurrent callers pass to set.
RaceSetArguments(source) ==
    CASE source = "qiita" ->
           { HandlerItems("qiita", [ids |-> <<2, 1, 3>>, rev |-> 2], None),
             HandlerItems("qiita", [ids |-> <<40, 41>>, rev |-> 1], None),
             <<>> }
      [] source = "zenn" ->
           { HandlerItems("zenn", [ids |-> <<5, 4>>, rev |-> 1], None) }
      [] source = "github" -> {}

\* set(source, items) up to the for loop: pk, ttl and items_to_store.
BeginSet(source, items) ==
    /\ Len(threads) < MaxThreads
    /\ \E items_to_store \in {ItemsToStore(items)} :
          threads' = Append(threads,
              CacheCall("set", source, ExpiryAt(clock), items_to_store,
                        IF items_to_store = <<>> THEN "done" ELSE "loop"))
    /\ setlog' = [setlog EXCEPT ![source] = Append(@, SetCall(clock, items))]
    /\ UNCHANGED <<clock, clockSteps, table, ncache, got>>
    /\ UNCHANGED <<catalog, session, last, history, ncalls, prev, ret>>
    /\ UNCHANGED fetchVars

\* One round of set's for loop: self._table.put_item(Item={...})
SetPut(t) ==
    /\ threads[t].kind = "set"
    /\ threads[t].pc = "loop"
    /\ table' = PutItem(table,
                    CacheRow(DYNAMODB_PK_PREFIX \o threads[t].source,
                             threads[t].items[threads[t].next], threads[t].ttl))
    /\ threads' = [threads EXCEPT
           ![t].next = @ + 1,
           ![t].pc = IF threads[t].next = Len(threads[t].items)
                     THEN "done" ELSE "loop"]
    /\ UNCHANGED <<clock, clockSteps, setlog, ncache, got>>
    /\ UNCHANGED <<catalog, session, last, history, ncalls, prev, ret>>
    /\ UNCHANGED fetchVars

\* invalidate(source) up to its query.
BeginInvalidate(source) ==
    /\ Len(threads) < MaxThreads
    /\ threads' = Append(threads, CacheCall("invalidate", source, 0, <<>>, "query"))
    /\ UNCHANGED cacheVars
    /\ UNCHANGED <<catalog, session, last, history, ncalls, prev, ret>>
    /\ UNCHANGED fetchVars

\* invalidate: response = self._table.query(...); items = response["Items"]
InvalidateQuery(t) ==
    /\ threads[t].kind = "invalidate"
    /\ threads[t].pc = "query"
    /\ \E items \in {Query(table, DYNAMODB_PK_PREFIX \o threads[t].source,
                           DYNAMODB_SK_ITEM_PREFIX)} :
          threads' = [threads EXCEPT
              ![t].items = items,
              ![t].pc = IF items = <<>> THEN "done" ELSE "loop"]
    /\ UNCHANGED cacheVars
    /\ UNCHANGED <<catalog, session, last, history, ncalls, prev, ret>>
    /\ UNCHANGED fetchVars

\* Variant of InvalidateDelete that leaves the loop after its first round.
InvalidateDeleteOnce(t) ==
    /\ threads[t].kind = "invalidate"
    /\ threads[t].pc = "loop"
    /\ table' = DeleteItem(table, threads[t].items[threads[t].next].PK,
                           threads[t].items[threads[t].next].SK)
    /\ threads' = [threads EXCEPT ![t].next = @ + 1, ![t].pc = "done"]
    /\ UNCHANGED <<clock, clockSteps, setlog, ncache, got>>
    /\ UNCHANGED <<catalog, session, last, history, ncalls, prev, ret>>
    /\ UNCHANGED fetchVars

\* One round of invalidate's for loop: self._table.delete_item(Key={...})
InvalidateDelete(t) ==
    /\ threads[t].kind = "invalidate"
    /\ threads[t].pc = "loop"
    /\ table' = DeleteItem(table, threads[t].items[threads[t].next].PK,
                           threads[t].items[threads[t].next].SK)
    /\ threads' = [threads EXCEPT
           ![t].next = @ + 1,
           ![t].pc = IF threads[t].next = Len(threads[t].items)
                     THEN "done" ELSE "loop"]
    /\ UNCHANGED <<clock, clockSteps, setlog, ncache, got>>
    /\ UNCHANGED <<catalog, session, last, history, ncalls, prev, ret>>
    /\ UNCHANGED fetchVars

\* A table that earlier invocations may have filled, at time 0.
CacheRaceInit ==
    /\ FetcherReady
    /\ fetcher = None
    /\ handlers = <<"qiita", "zenn", "github">>
    /\ clock = 0

CacheRaceNext ==
    \/ \E source \in SourceType :
          \E items \in RaceSetArguments(source) : BeginSet(source, items)
    \/ \E source \in {"qiita", "zenn"} : BeginInvalidate(source)
    \/ \E t \in DOMAIN threads : SetPut(t)
    \/ \E t \in DOMAIN threads : InvalidateQuery(t)
    \/ \E t \in DOMAIN threads : InvalidateDelete(t)

CacheRaceSpec == CacheRaceInit /\ [][CacheRaceNext]_vars

---------------------------------------------------------------------------
(* The handlers and generate_news_id called directly *)

\* The tags a caller passes to handler.fetch.
HandlerTags == { None, Some(<<"python">>), Some(<<"go", "Python">>) }

\* Original ids: a Qiita item id, a Zenn slug, a GitHub full name, and strings
\* that hold the separator or a source name.
OriginalIdStrings ==
    { "abc123def456", "my-article-slug", "owner/repo-name",
      "1", "_1", "1_", "zenn_1", "" }

\* handler.fetch(tags), called directly, with the reply the provider gives.
HandlerFetch(source, tags, reply) ==
    /\ ncalls < MaxCalls
    /\ ncalls' = ncalls + 1
    /\ ret' = Some([tags |-> tags, source |-> source, kind |-> "fetch",
                    result |-> Fetch(source, reply, tags), reply |-> reply])
    /\ UNCHANGED <<catalog, session, last, history, prev, threads>>
    /\ UNCHANGED <<cacheVars, fetchVars>>

\* generate_news_id(source, original_id), called directly.
GenerateNewsId(source, original_id) ==
    /\ ncalls < MaxCalls
    /\ ncalls' = ncalls + 1
    /\ ret' = Some([source |-> source, kind |-> "generate_news_id",
                    result |-> generate_news_id(source, original_id),
                    original_id |-> original_id])
    /\ UNCHANGED <<catalog, session, last, history, prev, threads>>
    /\ UNCHANGED <<cacheVars, fetchVars>>

HandlerInit == CacheIdle /\ FetcherIdle /\ AgentIdle

HandlerNext ==
    \/ \E source \in SourceType, tags \in HandlerTags :
          \E reply \in ProviderReplies(source) : HandlerFetch(source, tags, reply)
    \/ \E source \in SourceType, original_id \in OriginalIdStrings :
          GenerateNewsId(source, original_id)

HandlerSpec == HandlerInit /\ [][HandlerNext]_vars

---------------------------------------------------------------------------
(* handler.py: lambda_handler *)

\* How lambda_handler ends: it returns a dict with "items" and "errors", or an
\* exception (named by its class) leaves it.
LambdaReturns(items, errors) ==
    [kind |-> "return", items |-> items, errors |-> errors, exc |-> None]

LambdaRaises(exc) ==
    [kind |-> "exception", items |-> <<>>, errors |-> None, exc |-> Some(exc)]

\* _create_news_fetcher(): CacheManager.__init__(self, table) is called with the
\* keywords table_name, endpoint_url and region_name, which raises TypeError.
create_news_fetcher == LambdaRaises("TypeError")

\* dataclasses.asdict(obj): the dict of a dataclass instance (a NewsItem), and
\* TypeError for any other object (a SourceError is an Exception, not a
\* dataclass).
Asdict(obj, is_dataclass) ==
    IF is_dataclass
    THEN [kind |-> "return", result |-> Some(obj), exc |-> None]
    ELSE [kind |-> "exception", result |-> None, exc |-> Some("TypeError")]

\* [asdict(error) for error in response.errors]
AsdictErrors(errors) ==
    [i \in DOMAIN errors |-> Asdict(errors[i], FALSE)]

\* The try block of lambda_handler, once fetch has returned `fetched`.
LambdaTry(fetched) ==
    LET items == [i \in DOMAIN fetched.items |-> Asdict(fetched.items[i], TRUE)]
        errors == IF fetched.errors # None /\ Value(fetched.errors) # <<>>
                  THEN AsdictErrors(Value(fetched.errors))
                  ELSE <<>>
    IN  IF \E i \in DOMAIN items : items[i].kind = "exception"
        THEN LambdaRaises("TypeError")
        ELSE IF \E i \in DOMAIN errors : errors[i].kind = "exception"
        THEN LambdaRaises("TypeError")
        ELSE LambdaReturns(
                 [i \in DOMAIN items |-> Value(items[i].result)],
                 IF fetched.errors # None /\ Value(fetched.errors) # <<>>
                 THEN Some([i \in DOMAIN errors |-> Value(errors[i].result)])
                 ELSE None)

\* except Exception as e: the internal_error response.
LambdaExcept(outcome) ==
    IF outcome.kind = "exception"
    THEN LambdaReturns(<<>>,
             Some(<< [source |-> "system", error_type |-> "internal_error",
                      message |-> Value(outcome.exc)] >>))
    ELSE outcome

\* One entry of `ret` for a lambda_handler invocation.
LambdaCall(outcome) == [kind |-> "lambda_handler", result |-> outcome]

\* lambda_handler(event, context) while _fetcher is None: _get_fetcher() calls
\* _create_news_fetcher() before the try block is entered.
LambdaColdStart(sources, tags, force_refresh) ==
    /\ fetcher = None
    /\ ret = None
    /\ phase = "idle"
    /\ ret' = Some(LambdaCall(create_news_fetcher))
    /\ UNCHANGED <<catalog, session, last, history, ncalls, prev, threads>>
    /\ UNCHANGED <<cacheVars, fetchVars>>

\* lambda_handler(event, context) while _fetcher holds a NewsFetcher, up to the
\* submission of the tasks of fetcher.fetch(sources, tags, force_refresh).
LambdaWarmStart(sources, tags, force_refresh) ==
    /\ fetcher # None
    /\ ret = None
    /\ response = None
    /\ FetchStart(sources, tags, force_refresh)

\* lambda_handler after fetcher.fetch has returned: the conversion.
LambdaReturn ==
    /\ fetcher # None
    /\ ret = None
    /\ phase = "idle"
    /\ response # None
    /\ ret' = Some(LambdaCall(LambdaExcept(LambdaTry(Value(response)))))
    /\ UNCHANGED <<catalog, session, last, history, ncalls, prev, threads>>
    /\ UNCHANGED <<cacheVars, fetchVars>>

\* The module global _fetcher is None in a new process; a process that has it
\* set (a NewsFetcher put in place before the invocation) finds the fetcher of
\* FetcherReady.
LambdaInit == FetcherReady /\ fetcher \in {None, Some("NewsFetcher")}

LambdaNext ==
    \/ \E sources \in FetchSources, tags \in FetchTags, force_refresh \in BOOLEAN :
          LambdaColdStart(sources, tags, force_refresh)
    \/ \E sources \in FetchSources, tags \in FetchTags, force_refresh \in BOOLEAN :
          LambdaWarmStart(sources, tags, force_refresh)
    \/ \E i \in DOMAIN futures : WorkerCacheGet(i)
    \/ \E i \in DOMAIN futures : WorkerHandlerFetch(i)
    \/ \E i \in DOMAIN futures : WorkerCacheSet(i)
    \/ \E i \in DOMAIN futures : Collect(i)
    \/ FetchReturn
    \/ LambdaReturn

LambdaSpec == LambdaInit /\ [][LambdaNext]_vars

---------------------------------------------------------------------------
(* Claims about NewsFetcher.fetch, checked under Spec *)

\* The fetch has returned its response.
Returned == phase = "idle" /\ response # None

\* No source was submitted twice in the fetch in progress.
NoDuplicateTargets ==
    \A i, j \in DOMAIN futures : futures[i].source = futures[j].source => i = j

\* The tasks whose handler raised SourceError.
Failing == {i \in DOMAIN futures : futures[i].error # None}

\* What the cache or the handler produced for task i.
Produced(i) ==
    IF futures[i].cached # None THEN Value(futures[i].cached) ELSE futures[i].fetched

ItemsOfSource(items, source) == SelectSeq(items, LAMBDA x : x.source = source)

RECURSIVE LenProduced(_)
LenProduced(S) ==
    IF S = {} THEN 0
    ELSE LET i == CHOOSE j \in S : TRUE IN Len(Produced(i)) + LenProduced(S \ {i})

\* C1: when fetch returns (no source submitted twice), the response's items are
\* exactly the items of every target source whose handler did not raise, and
\* errors holds exactly one SourceError per source whose handler raised
\* SourceError (None when there is none).
C1_FailureIsolation ==
    (Returned /\ NoDuplicateTargets) =>
        LET r == Value(response)
            ok == DOMAIN futures \ Failing
        IN  /\ \A i \in ok :
                  ItemsOfSource(r.items, futures[i].source) = Produced(i)
            /\ Len(r.items) = LenProduced(ok)
            /\ IF Failing = {} THEN r.errors = None
               ELSE /\ r.errors # None
                    /\ Len(Value(r.errors)) = Cardinality(Failing)
                    /\ \A i \in Failing :
                          \E k \in DOMAIN Value(r.errors) :
                              /\ Value(r.errors)[k] = Value(futures[i].error)
                              /\ Value(r.errors)[k].source = futures[i].source

\* C1 witness: three sources were fetched, exactly one handler raised, and the
\* other two sources' items are in the response.
C1_Witness ==
    /\ Returned
    /\ Len(futures) = 3
    /\ NoDuplicateTargets
    /\ Cardinality(Failing) = 1
    /\ \A i \in DOMAIN futures \ Failing :
          Produced(i) # <<>>
          /\ ItemsOfSource(Value(response).items, futures[i].source) = Produced(i)

\* The NewsItem a table row holds.
RowItem(r) == NewsItem(r.id, r.title, r.url, r.summary, r.tags, r.source)

\* Task i read the cache and found unexpired rows for its source.
CacheHit(i) ==
    /\ futures[i].log # <<>>
    /\ futures[i].log[1] = "cache.get"
    /\ futures[i].unexpired # {}

Refreshed(i) ==
    /\ futures[i].pc \in {"done", "collected"}
    /\ futures[i].error = None
    /\ \/ call.force_refresh
       \/ futures[i].log # <<>> /\ futures[i].log[1] = "cache.get"
          /\ futures[i].unexpired = {}

\* C3: with force_refresh, or with no unexpired cached row of the source, a task
\* that returns has called the handler exactly once, with the caller's tags, has
\* then called set(source, result) with the handler's result, and returns that
\* result; with force_refresh it never read the cache.  With no source submitted
\* twice, the rows of the first MAX_ITEMS_PER_SOURCE items are then in the table.
C3_CacheMissOrRefresh ==
    \A i \in DOMAIN futures :
        Refreshed(i) =>
            /\ futures[i].log =
                  (IF call.force_refresh THEN <<>> ELSE <<"cache.get">>)
                      \o <<"handler.fetch", "cache.set">>
            /\ futures[i].passed = call.tags
            /\ futures[i].stored = futures[i].fetched
            /\ futures[i].result = futures[i].fetched
            /\ NoDuplicateTargets =>
                  \A k \in 1..Min(Len(futures[i].fetched), MAX_ITEMS_PER_SOURCE) :
                      \E r \in table :
                          /\ r.PK = DYNAMODB_PK_PREFIX \o futures[i].source
                          /\ RowItem(r) = futures[i].fetched[k]

\* C3 witness: one task refreshed by force and another after a cache miss on
\* expired rows, both storing a non-empty handler result fetched with tags.
C3_Witness ==
    /\ Returned
    /\ call.tags # None
    /\ \E i \in DOMAIN futures :
          /\ Refreshed(i)
          /\ futures[i].fetched # <<>>
          /\ futures[i].pc = "collected"
          /\ ~call.force_refresh
          /\ \E r \in table : r.PK = DYNAMODB_PK_PREFIX \o futures[i].source
                              /\ r.ttl * TicksPerSecond <= clock

---------------------------------------------------------------------------
(* Claims about CacheManager, checked under CacheSpec *)

\* The rows of a source in the table.
RowsOf(source) == {r \in table : r.PK = DYNAMODB_PK_PREFIX \o source}

\* C4: get(source) never returns an item whose expiry timestamp is at or before
\* the time of the call, even while the expired row is still in the table, and
\* when no unexpired row exists it returns None, never an empty list.
C4_NoExpiredItems ==
    /\ got # None =>
          LET g == Value(got)
          IN  /\ g.result # Some(<<>>)
              /\ UnexpiredRows(table, g.source, g.at) = {} => g.result = None
              /\ g.result # None =>
                    \A k \in DOMAIN Value(g.result) :
                        \A r \in RowsOf(g.source) :
                            r.id = Value(g.result)[k].id
                                => r.ttl * TicksPerSecond > g.at
    /\ \A source \in SourceType :
          LET result == CacheGet(table, source, clock)
          IN  /\ result # Some(<<>>)
              /\ result # None =>
                    \A k \in DOMAIN Value(result) :
                        \E r \in UnexpiredRows(table, source, clock) :
                            RowItem(r) = Value(result)[k]

\* C4 witness: get returned the unexpired items of a source while an expired row
\* of the same source was still in the table.
C4_Witness ==
    /\ got # None
    /\ Value(got).result # None
    /\ \E r \in RowsOf(Value(got).source) :
          /\ r.ttl * TicksPerSecond <= Value(got).at
          /\ \A k \in DOMAIN Value(Value(got).result) :
                Value(Value(got).result)[k].id # r.id

\* What get(source) returns now.
Cached(source) == CacheGet(table, source, clock)

\* The clock has not reached the expiry of a set call made at reading now.
BeforeExpiry(now) == clock < (now + CACHE_TTL_SECONDS) * TicksPerSecond

\* Item x of the k-th set call (since the last invalidate) of a source survives
\* the round trip, result being what get(source) returns now: returned unchanged
\* before its TTL, not returned after.
RoundTrips(result, source, k, x) ==
    IF BeforeExpiry(setlog[source][k].now)
    THEN result # None /\ x \in Range(Value(result))
    ELSE result = None \/ \A y \in Range(Value(result)) : y.id # x.id

\* No later set call of the source stored an item with the id of x.
NotStoredAgain(source, k, x) ==
    \A j \in (k + 1)..Len(setlog[source]) :
        \A y \in Range(ItemsToStore(setlog[source][j].items)) : y.id # x.id

\* C5 as stated: every item among the first 30 of a set(source, items) is
\* returned by get(source) with identical fields at any time strictly before the
\* set's clock reading + TTL, provided no invalidate(source) intervened, and is
\* not returned once the TTL has elapsed.
C5_RoundTrip_AsStated ==
    \A source \in SourceType :
        LET result == Cached(source)
        IN  \A k \in DOMAIN setlog[source] :
                \A x \in Range(ItemsToStore(setlog[source][k].items)) :
                    RoundTrips(result, source, k, x)

\* C5 amended: the same, provided also that no later set(source, ...) stored an
\* item with the same id (a later set replaces the row and restarts its TTL).
C5_RoundTrip ==
    \A source \in SourceType :
        LET result == Cached(source)
        IN  \A k \in DOMAIN setlog[source] :
                \A x \in Range(ItemsToStore(setlog[source][k].items)) :
                    NotStoredAgain(source, k, x)
                        => RoundTrips(result, source, k, x)

\* C5 witness: half a second before its expiry, get returned an item of a set
\* call that stored only the first 30 of its 31 items.
C5_Witness ==
    /\ got # None
    /\ Value(got).at = clock
    /\ Value(got).result # None
    /\ \E k \in DOMAIN setlog[Value(got).source] :
          LET c == setlog[Value(got).source][k]
          IN  /\ Len(c.items) > MAX_ITEMS_PER_SOURCE
              /\ clock = (c.now + CACHE_TTL_SECONDS) * TicksPerSecond - 1
              /\ Range(ItemsToStore(c.items)) = Range(Value(Value(got).result))

---------------------------------------------------------------------------
(* Claims about ByteSipAgent.get_news, checked under AgentSpec *)

\* The last get_news call: arguments, fetch result, response, and the
\* proposed ids stored when it was made.
LastCall == Value(last)

\* The fetched items of a call that had not been proposed before it.
UnproposedAtCall(c) ==
    LET proposed == Range(c.proposed)
    IN  SelectSeq(c.fetched, LAMBDA item : item.id \notin proposed)

\* The first MAX_PER_SOURCE unproposed items of a source, in fetch order.
FirstOfSource(c, source) ==
    Slice(ItemsOfSource(UnproposedAtCall(c), source), MAX_PER_SOURCE)

Count(seq, x) == Cardinality({i \in DOMAIN seq : seq[i] = x})

IsPrefix(front, seq) ==
    Len(front) <= Len(seq) /\ SubSeq(seq, 1, Len(front)) = front

NoRepeatedId(items) ==
    \A i, j \in DOMAIN items : items[i].id = items[j].id => i = j

\* C6: over a fixed underlying item set and with no clear in between, no item
\* id is returned by two different get_news calls of a session.
C6_NoRepeatAcrossCalls ==
    \A i, j \in DOMAIN history :
        i < j => Range(history[i]) \cap Range(history[j]) = {}

\* C6 witness: a later call returned items although its fetch result also held
\* items an earlier call had returned.
C6_Witness ==
    /\ last # None
    /\ Len(history) >= 2
    /\ history[Len(history)] # <<>>
    /\ \E i \in 1..(Len(history) - 1) :
          Range(history[i]) \cap Range(Ids(LastCall.fetched)) # {}

\* C7: a get_news response holds at most MAX_PER_SOURCE (10) items of any one
\* source, and they are among the first 10 unproposed items of that source in
\* fetch order: a leading part of them when no id is fetched twice, and all of
\* them when the limit does not cut the response.
C7_PerSourceCap ==
    last # None =>
        \A c \in {LastCall} :
        \A unproposed \in {UnproposedAtCall(c)} :
        \A distinct \in {NoRepeatedId(c.fetched)} :
        \A source \in SourceType :
            \A mine \in {ItemsOfSource(c.result.items, source)} :
            \A first \in {Slice(ItemsOfSource(unproposed, source), MAX_PER_SOURCE)} :
                /\ Len(mine) <= MAX_PER_SOURCE
                /\ \A x \in Range(mine) : Count(mine, x) <= Count(first, x)
                /\ distinct => IsPrefix(mine, first)
                /\ c.limit >= MAX_TOTAL => Len(mine) = Len(first)

\* C7 witness: a source had more than 10 unproposed items left after an earlier
\* call had proposed some of its items, and exactly its first 10 were returned.
C7_Witness ==
    /\ last # None
    /\ Range(LastCall.proposed) \cap Range(Ids(LastCall.fetched)) # {}
    /\ \E source \in SourceType :
          /\ Len(ItemsOfSource(UnproposedAtCall(LastCall), source)) > MAX_PER_SOURCE
          /\ ItemsOfSource(LastCall.result.items, source)
                 = FirstOfSource(LastCall, source)

\* C8 as stated: the number of items get_news returns is at most
\* min(limit, MAX_TOTAL), for every integer limit (a count is never negative:
\* for a negative limit the bound is zero items).
C8_GlobalCap ==
    last # None =>
        Len(LastCall.result.items) <= Max(0, Min(LastCall.limit, MAX_TOTAL))

\* C9 as stated: for every limit <= 0 get_news returns zero items and records
\* nothing in session memory.
C9_NonPositiveLimit ==
    (last # None /\ LastCall.limit <= 0) =>
        /\ LastCall.result.items = <<>>
        /\ session = LastCall.proposed

\* The sum over the sources of min(number of unproposed fetched items, 10).
CapEligible(unproposed) ==
    LET n(source) == Min(Len(ItemsOfSource(unproposed, source)), MAX_PER_SOURCE)
    IN  n("qiita") + n("zenn") + n("github")

PrevCall == Value(prev)

\* The last two get_news calls had the same arguments and fetch result.
SameFilters ==
    /\ prev # None
    /\ last # None
    /\ PrevCall.sources = LastCall.sources
    /\ PrevCall.tags = LastCall.tags
    /\ PrevCall.limit = LastCall.limit
    /\ PrevCall.fetched = LastCall.fetched

\* C11: within a session, over a fixed fetch result and with the same sources,
\* tags and limit, a get_news call that follows one that returned
\* has_more = false returns no more items than that call returned.
C11_MonotonicExhaustion ==
    (SameFilters /\ ~PrevCall.result.has_more) =>
        Len(LastCall.result.items) <= Len(PrevCall.result.items)

\* C11 witness: a call returned items with has_more = false and the next call,
\* with the same arguments, still returned items (no more than before).
C11_Witness ==
    /\ SameFilters
    /\ ~PrevCall.result.has_more
    /\ PrevCall.result.items # <<>>
    /\ LastCall.result.items # <<>>
    /\ Len(LastCall.result.items) < Len(PrevCall.result.items)

\* C12 as stated: whenever get_news returns has_more = false no unproposed item
\* of the fetch result is left unreturned, i.e. an immediately following
\* get_news over the same fetch result (same session, limit >= 1) returns zero
\* items.
C12_HasMoreFalseMeansNoneLeft ==
    /\ (last # None /\ ~LastCall.result.has_more) =>
          Range(Ids(UnproposedAtCall(LastCall)))
              \subseteq Range(Ids(LastCall.result.items))
    /\ ( /\ prev # None
         /\ last # None
         /\ ~PrevCall.result.has_more
         /\ LastCall.fetched = PrevCall.fetched
         /\ LastCall.limit >= 1 )
           => LastCall.result.items = <<>>

\* C13: after a get_news call that returns a non-empty list the recorded ids
\* are exactly the previously recorded ids plus the ids of the returned items;
\* a call that returns zero items leaves the session memory as it was.
C13_SessionWrite ==
    last # None =>
        IF LastCall.result.items # <<>>
        THEN Range(session)
                 = Range(LastCall.proposed) \cup Range(Ids(LastCall.result.items))
        ELSE session = LastCall.proposed

\* C13 witness: with ids recorded before, a call returned some of the unproposed
\* items it fetched and not others, and only the returned ones were added.
C13_Witness ==
    /\ last # None
    /\ LastCall.proposed # <<>>
    /\ LastCall.result.items # <<>>
    /\ \E i \in DOMAIN LastCall.fetched :
          /\ LastCall.fetched[i].id \notin Range(LastCall.proposed)
          /\ LastCall.fetched[i].id \notin Range(session)

---------------------------------------------------------------------------
(* Further claims about NewsFetcher.fetch, checked under Spec *)

\* The sources of the submitted tasks, in submission order.
Submitted == [i \in DOMAIN futures |-> futures[i].source]

\* C14 as stated: for every explicit sources list, the empty list included,
\* fetch does cache/handler work only for the listed sources that have a
\* registered handler; only when sources is None are all registered sources
\* used.
C14_TargetResolution ==
    nfetch > 0 =>
        IF call.sources = None
        THEN Submitted = handlers
        ELSE Submitted = SelectSeq(Value(call.sources),
                                   LAMBDA src : src \in Range(handlers))

\* C15: the errors field of the response is None exactly when no target source
\* failed, and otherwise a non-empty list; a call whose resolved target set is
\* empty returns no items and errors None.
C15_ErrorsField ==
    Returned =>
        /\ (Value(response).errors = None) <=> (Failing = {})
        /\ Value(response).errors # None => Value(Value(response).errors) # <<>>
        /\ futures = <<>> => Value(response) = FetchNewsResponse(<<>>, None)

\* C15 witness: a fetch naming only a source without a registered handler
\* returned no items and errors None.
C15_Witness ==
    /\ Returned
    /\ call.sources # None
    /\ Value(call.sources) # <<>>
    /\ futures = <<>>
    /\ Value(response) = FetchNewsResponse(<<>>, None)

\* An item has at least one tag equal to a requested tag, ignoring case.
HasRequestedTag(item, tags) ==
    \E i \in DOMAIN item.tags, j \in DOMAIN tags :
        Lower(item.tags[i]) = Lower(tags[j])

\* C16 as stated: when fetch is called with a non-empty tags list and a
\* source's items come from the cache, only the cached items having at least
\* one requested tag (case-insensitively) are returned for that source, without
\* invoking the handler; with tags absent all cached items are returned.
C16_CachedItemsFilteredByTags ==
    \A i \in DOMAIN futures :
        (CacheHit(i) /\ futures[i].cached # None) =>
            /\ futures[i].log = <<"cache.get">>
            /\ futures[i].result =
                  IF call.tags = None \/ call.tags = Some(<<>>)
                  THEN Value(futures[i].cached)
                  ELSE SelectSeq(Value(futures[i].cached),
                                 LAMBDA item : HasRequestedTag(item, Value(call.tags)))

---------------------------------------------------------------------------
(* Claims about ProposedIdsManager, checked under MemorySpec *)

\* The direct memory call that has just returned, if any.
MemoryReturned(kind) == ret # None /\ Value(ret).kind = kind

\* How many times an id occurs in a list.
Occurrences(ids, id) == Cardinality({ i \in DOMAIN ids : ids[i] = id })

\* C17 as stated: after record_proposed_ids(ids), for any input list (one
\* that repeats an id or names recorded ids included), the stored list holds
\* every previously recorded id and every id of the input, each exactly once.
C17_RecordIsSetUnion ==
    MemoryReturned("record_proposed_ids") =>
        LET r == Value(ret)
            union == Range(r.proposed) \cup Range(r.ids)
        IN  /\ Range(session) = union
            /\ \A id \in union : Occurrences(session, id) = 1

\* C18: over get_news, record_proposed_ids, filter_unproposed and is_proposed,
\* the set of recorded ids never loses an element; only clear() empties it.
C18_MemoryGrowsMonotonically ==
    [][Clear \/ Range(session) \subseteq Range(session')]_vars

\* A direct record on top of ids recorded by get_news has kept all of them,
\* and added ids of its own.
C18_Witness ==
    /\ MemoryReturned("record_proposed_ids")
    /\ last # None
    /\ Value(ret).proposed # <<>>
    /\ Range(Value(ret).proposed) \subseteq Range(session)
    /\ Range(Value(ret).proposed) # Range(session)

\* The elements of ids not in recorded, in input order: element by element.
RECURSIVE Unrecorded(_, _)
Unrecorded(ids, recorded) ==
    IF ids = <<>> THEN <<>>
    ELSE IF Head(ids) \in recorded
         THEN Unrecorded(Tail(ids), recorded)
         ELSE <<Head(ids)>> \o Unrecorded(Tail(ids), recorded)

\* C19: filter_unproposed(ids) returns exactly the elements of ids that are
\* not recorded, in input order, and leaves the memory as it was;
\* is_proposed(id) is true exactly for the recorded ids.
C19_FilterAndIsProposed ==
    /\ MemoryReturned("filter_unproposed") =>
          LET r == Value(ret)
          IN  /\ r.result = Unrecorded(r.ids, Range(r.proposed))
              /\ session = r.proposed
    /\ MemoryReturned("is_proposed") =>
          LET r == Value(ret)
          IN  /\ r.result = (r.ids[1] \in Range(r.proposed))
              /\ session = r.proposed

\* filter_unproposed on a list that repeats an unrecorded id and names a
\* recorded one: the recorded id is dropped, the repeated id is kept twice.
C19_Witness ==
    /\ MemoryReturned("filter_unproposed")
    /\ Value(ret).ids = <<"qiita_2", "qiita_1", "qiita_2">>
    /\ Value(ret).result = <<"qiita_2", "qiita_2">>
    /\ "qiita_1" \in Range(session)

---------------------------------------------------------------------------
(* A further claim about CacheManager.set, checked under CacheSpec *)

\* The rows of a table outside the given keys of a source.
RowsOutside(tbl, source, keys) ==
    { r \in tbl : ~(r.PK = DYNAMODB_PK_PREFIX \o source /\ r.id \in keys) }

\* What set(source, items) has done between two states: the rows of the first
\* min(len(items), 30) items are those items, all stamped now + 86400, and
\* every other row of the table is as it was.
WroteFirstItems(source, c, before, after) ==
    LET n == Min(Len(c.items), MAX_ITEMS_PER_SOURCE)
        kept == { c.items[i] : i \in 1..n }
        keys == { item.id : item \in kept }
        rows == after \ RowsOutside(after, source, keys)
    IN  /\ Cardinality(rows) = Cardinality(keys)
        /\ \A r \in rows : /\ RowItem(r) \in kept
                           /\ r.ttl = c.now + CACHE_TTL_SECONDS
        /\ RowsOutside(after, source, keys) = RowsOutside(before, source, keys)

\* C20: set(source, items) writes exactly the first min(len(items), 30) items
\* of the input, each stamped with the same expiry now + 86400 s, and
\* discards the overflow.
C20_SetWritesFirstItems ==
    [][\A source \in SourceType :
          Len(setlog'[source]) = Len(setlog[source]) + 1 =>
              WroteFirstItems(source, setlog'[source][Len(setlog'[source])],
                              table, table')]_vars

\* A set of 31 items on an empty table has left the first 30, with one
\* expiry, and no row for the 31st.
C20_Witness ==
    /\ ncache = 1
    /\ Len(setlog["qiita"]) = 1
    /\ Len(setlog["qiita"][1].items) = MAX_ITEMS_PER_SOURCE + 1
    /\ Cardinality(RowsOf("qiita")) = MAX_ITEMS_PER_SOURCE
    /\ \A r \in RowsOf("qiita") :
          r.ttl = setlog["qiita"][1].now + CACHE_TTL_SECONDS
    /\ \A r \in RowsOf("qiita") :
          r.id # setlog["qiita"][1].items[MAX_ITEMS_PER_SOURCE + 1].id

---------------------------------------------------------------------------
(* Further claims about CacheManager, checked under CacheSpec *)

\* C21 as stated: after any sequence of set, get and invalidate operations
\* (repeated sets of one source with different item ids included), the cache
\* holds, and get(source) returns, at most 30 unexpired items of any one source.
C21_PerSourceCacheBound ==
    /\ \A source \in SourceType :
          /\ Cardinality(UnexpiredRows(table, source, clock)) <= MAX_ITEMS_PER_SOURCE
          /\ \A result \in {CacheGet(table, source, clock)} :
                result # None => Len(Value(result)) <= MAX_ITEMS_PER_SOURCE
    /\ got # None =>
          (Value(got).result # None
              => Len(Value(Value(got).result)) <= MAX_ITEMS_PER_SOURCE)

\* No set of the source since its last invalidate: the table holds no row of
\* the source and a get of the source has returned None.
NoRowsUntilSet(source) ==
    setlog[source] = <<>> =>
        /\ RowsOf(source) = {}
        /\ (got # None /\ Value(got).source = source) => Value(got).result = None

\* C22: after invalidate(source) the cache holds no row of the source, expired
\* or not, and get(source) returns None until the next set(source, ...).
C22_InvalidateRemovesAll ==
    /\ [](\A source \in SourceType : NoRowsUntilSet(source))
    /\ [][\A source \in SourceType :
             (table' # table /\ Invalidate(source)) =>
                 {r \in table' : r.PK = DYNAMODB_PK_PREFIX \o source} = {}]_vars

\* Rows had been set, every source that was set has been invalidated since,
\* and a get of an invalidated source has returned None.
C22_Witness ==
    /\ ncache >= 1
    /\ \A source \in SourceType : setlog[source] = <<>>
    /\ table = {}
    /\ got # None
    /\ Value(got).result = None

\* The rows of a source in a table.
PartitionOf(tbl, source) == {r \in tbl : r.PK = DYNAMODB_PK_PREFIX \o source}

\* C23: set(A, ...) and invalidate(A) leave the rows of every other source B
\* as they were (a step changes the rows of B only if it is a set or an
\* invalidate of B itself), and get(B) returns only items stored under B.
C23_KeyedBySource ==
    /\ [][\A B \in SourceType :
             PartitionOf(table', B) # PartitionOf(table, B) =>
                 (Invalidate(B) \/ \E items \in SetArguments(B) : Set(B, items))]_vars
    /\ [](got # None =>
             \A g \in {Value(got)} :
                 g.result # None =>
                     \A k \in DOMAIN Value(g.result) :
                         /\ \E r \in RowsOf(g.source) : RowItem(r) = Value(g.result)[k]
                         /\ \A A \in SourceType \ {g.source} :
                               \A r \in RowsOf(A) : r.id # Value(g.result)[k].id)

\* Two sources hold rows after the sets of this behaviour, and a get of one of
\* them returned its own items.
C23_Witness ==
    /\ got # None
    /\ Value(got).source = "zenn"
    /\ Value(got).result # None
    /\ RowsOf("qiita") # {}
    /\ ncache = MaxSets

---------------------------------------------------------------------------
(* Claims about the handlers and generate_news_id, checked under HandlerSpec *)

\* The direct call that has just ended, if it was of the given kind.
Ended(kind) == ret # None /\ Value(ret).kind = kind

\* C24: handler.fetch(tags) of each of the three handlers either returns a list
\* of NewsItem or raises a SourceError whose source is the handler's own and
\* whose error_type is connection_error, rate_limit or parse_error; no other
\* exception leaves a handler.
C24_TypedFailures ==
    Ended("fetch") =>
        \A c \in {Value(ret)} :
            /\ c.result.kind \in {"items", "error"}
            /\ c.result.kind = "items" =>
                  \A i \in DOMAIN c.result.items :
                      c.result.items[i].source = c.source
            /\ c.result.kind = "error" =>
                  /\ Value(c.result.error).source = c.source
                  /\ Value(c.result.error).error_type \in ErrorType

\* An exception that is neither a SourceError nor a requests exception (a
\* KeyError of _parse_response) left the handler as a SourceError.
C24_Witness ==
    /\ Ended("fetch")
    /\ Value(ret).reply.body = "missing_key"
    /\ Value(ret).result.kind = "error"
    /\ Value(Value(ret).result.error).source = Value(ret).source

\* The error_type the failure mapping assigns to a provider reply: rate_limit
\* to an HTTP 403, parse_error to a body or feed that does not parse,
\* connection_error to any other transport failure; None to other replies.
MappedErrorType(reply) ==
    IF reply.kind = "http" /\ reply.status = 403 THEN Some("rate_limit")
    ELSE IF reply.body \in {"invalid_json", "bozo"} THEN Some("parse_error")
    ELSE IF reply.kind = "raise" \/ reply.status >= 400 THEN Some("connection_error")
    ELSE None

\* C25 as stated: for each handler, every HTTP 403 is reported as rate_limit
\* (a GitHub 403 whose X-RateLimit-Remaining is not "0" included), every parse
\* failure as parse_error (a Qiita body that fails to parse included), and
\* every other transport failure as connection_error.
C25_FailureMapping ==
    Ended("fetch") =>
        \A c \in {Value(ret)} :
            MappedErrorType(c.reply) # None =>
                /\ c.result.kind = "error"
                /\ Value(c.result.error).error_type = Value(MappedErrorType(c.reply))

\* C26: generate_news_id(source, original_id) is source, "_" and original_id
\* joined, the same for the same inputs, and two distinct (source,
\* original_id) pairs with source in {qiita, zenn, github} never give one id.
C26_IdInjective ==
    /\ Ended("generate_news_id") =>
          \A c \in {Value(ret)} :
              /\ Len(c.result) = Len(c.source) + 1 + Len(c.original_id)
              /\ SubSeq(c.result, 1, Len(c.source)) = c.source
              /\ SubSeq(c.result, Len(c.source) + 1, Len(c.source) + 1) = "_"
              /\ SubSeq(c.result, Len(c.source) + 2, Len(c.result)) = c.original_id
              /\ c.result = generate_news_id(c.source, c.original_id)
              /\ \A source \in SourceType, original_id \in OriginalIdStrings :
                    generate_news_id(source, original_id) = c.result
                        => source = c.source /\ original_id = c.original_id
    /\ generate_news_id("qiita", "abc123def456") = "qiita_abc123def456"
    /\ generate_news_id("github", "owner/repo-name") = "github_owner/repo-name"

\* An id was generated from an original id that itself holds the separator and
\* the name of another source.
C26_Witness ==
    /\ Ended("generate_news_id")
    /\ Value(ret).source = "qiita"
    /\ Value(ret).original_id = "zenn_1"
    /\ Value(ret).result = "qiita_zenn_1"

---------------------------------------------------------------------------
(* Claims about lambda_handler, checked under LambdaSpec *)

\* C27 as stated: lambda_handler never lets an exception reach its caller; for
\* every event, and for every failure while the fetcher is built or while it
\* fetches, it returns a dict with an items list and an errors field.
C27_NeverPropagates ==
    Ended("lambda_handler") => Value(ret).result.kind = "return"

\* The {source, error_type, message} entry of a SourceError.
ErrorEntry(e) ==
    [source |-> e.source, error_type |-> e.error_type, message |-> e.message]

---------------------------------------------------------------------------
(* Further claims about get_news and the session memory *)

\* The unproposed items that survive the per-source cap, in fetch order: an
\* item survives when fewer than MAX_PER_SOURCE unproposed items of its source
\* come before it.
CapSurviving(unproposed) ==
    LET before(i) == Cardinality({ j \in 1..(i - 1) :
                                     unproposed[j].source = unproposed[i].source })
        RECURSIVE upto(_)
        upto(n) == IF n = 0 THEN <<>>
                   ELSE IF before(n) < MAX_PER_SOURCE
                        THEN Append(upto(n - 1), unproposed[n])
                        ELSE upto(n - 1)
    IN  upto(Len(unproposed))

\* C29 as stated: the items get_news returns are in the same relative order as
\* in the fetch result: they are the first min(limit, 30) of the unproposed,
\* cap-surviving items of the fetched list, never regrouped by source (stated
\* here for the limits that are not negative).
C29_StableCurationOrder ==
    (last # None /\ LastCall.limit >= 0) =>
        \A c \in {LastCall} :
        \A surviving \in {CapSurviving(UnproposedAtCall(c))} :
            c.result.items =
                SubSeq(surviving, 1,
                       Min(Len(surviving), Max(0, Min(c.limit, MAX_TOTAL))))

\* C30 as stated: record_proposed_ids keeps the previously recorded ids in
\* their stored order and appends the new ids after them in arrival order, for
\* every existing list of two or more ids and every input list.
C30_KeepsStoredOrder_AsStated ==
    (MemoryReturned("record_proposed_ids") /\ Len(Value(ret).proposed) >= 2) =>
        \A r \in {Value(ret)} :
            session = r.proposed \o Unrecorded(r.ids, Range(r.proposed))

\* C30, amended: record_proposed_ids stores the previously recorded ids, each
\* once and in some order (not necessarily the stored one), followed by the ids
\* of the input that were not recorded before, in arrival order, one entry per
\* occurrence in the input.
C30_KeepsStoredOrder ==
    MemoryReturned("record_proposed_ids") =>
        \A r \in {Value(ret)} :
        \A n \in {Cardinality(Range(r.proposed))} :
            /\ Len(session) >= n
            /\ Range(SubSeq(session, 1, n)) = Range(r.proposed)
            /\ SubSeq(session, n + 1, Len(session))
                   = Unrecorded(r.ids, Range(r.proposed))

\* Two ids were stored, and a record of new ids has listed the two in the
\* other order in front of the new ids.
C30_Witness ==
    /\ MemoryReturned("record_proposed_ids")
    /\ Len(Value(ret).proposed) = 2
    /\ SubSeq(session, 1, 2) = Reverse(Value(ret).proposed)
    /\ SubSeq(session, 1, 2) # Value(ret).proposed
    /\ Len(session) > 2


---------------------------------------------------------------------------
(* Claims about concurrent callers of one session, checked under RaceSpec *)

\* Every call on the session began when no other call was in progress.
OneCallAtATime == \A t \in DOMAIN threads : threads[t].alone

\* The calls that have returned.
ThreadsDone == {t \in DOMAIN threads : threads[t].pc = "done"}

\* C31: with one call at a time on the session, every id a returned call
\* recorded is in the stored list, and no id is returned by two get_news calls.
\* (That overlapping calls lose recorded ids and return the same item twice is
\* the reachable state C31_Witness.)
C31_LostUpdateOnlyWhenConcurrent ==
    OneCallAtATime =>
        /\ \A t \in ThreadsDone : Range(threads[t].ids) \subseteq Range(session)
        /\ \A t, u \in ThreadsDone :
              t # u => Range(threads[t].result) \cap Range(threads[u].result) = {}

\* C31 witness: two get_news calls overlapped and both returned; an id the
\* first recorded is missing from the stored list, and one item was returned
\* to both.
C31_Witness ==
    /\ Len(threads) = 2
    /\ ThreadsDone = {1, 2}
    /\ threads[1].kind = "get_news" /\ threads[2].kind = "get_news"
    /\ ~threads[2].alone
    /\ Range(threads[1].ids) \ Range(session) # {}
    /\ Range(threads[1].result) \cap Range(threads[2].result) # {}


---------------------------------------------------------------------------
(* Claims about concurrent callers of the table, checked under CacheRaceSpec *)

\* The calls made on a source.
CallsOn(source) == {t \in DOMAIN threads : threads[t].source = source}

\* The calls on the source are one set (t) and one invalidate (u), both returned.
SetAndInvalidate(source, t, u) ==
    /\ CallsOn(source) = {t, u}
    /\ threads[t].kind = "set" /\ threads[t].pc = "done"
    /\ threads[u].kind = "invalidate" /\ threads[u].pc = "done"

\* The rows set call t writes.
RowsOfSet(t) ==
    {CacheRow(DYNAMODB_PK_PREFIX \o threads[t].source, threads[t].items[k],
              threads[t].ttl) : k \in DOMAIN threads[t].items}

\* C32 as stated: after a set and an invalidate of one source, overlapping or
\* not, either all rows of the set are in the table or none is.
C32_LastWriterWins_AsStated ==
    \A source \in SourceType : \A t, u \in CallsOn(source) :
        SetAndInvalidate(source, t, u) =>
            \/ RowsOfSet(t) \cap table = {}
            \/ RowsOfSet(t) \subseteq table

\* C32: after a set and an invalidate of one source, the rows of the source
\* are rows of the set (some, all or none of them); when the later call began
\* after the earlier one returned, they are all of them if the set was the
\* later call and none if the invalidate was.
C32_LastWriterWins ==
    \A source \in SourceType : \A t, u \in CallsOn(source) :
        SetAndInvalidate(source, t, u) =>
            /\ RowsOf(source) \subseteq RowsOfSet(t)
            /\ (t < u /\ threads[u].alone) => RowsOf(source) = {}
            /\ (u < t /\ threads[t].alone) => RowsOf(source) = RowsOfSet(t)

\* C32 witness: a set and an invalidate of one source overlapped, and some but
\* not all rows of the set are left.
C32_Witness ==
    \E source \in SourceType : \E t, u \in CallsOn(source) :
        /\ SetAndInvalidate(source, t, u)
        /\ ~threads[t].alone \/ ~threads[u].alone
        /\ RowsOf(source) # {}
        /\ RowsOf(source) # RowsOfSet(t)
        /\ RowsOf(source) \subseteq RowsOfSet(t)


---------------------------------------------------------------------------
(* Further claims about NewsFetcher.fetch, checked under Spec *)

\* The tasks of the fetch in progress that work on a source.
TasksOf(source) == {i \in DOMAIN futures : futures[i].source = source}

\* The tasks of a source that have made a given call.
TasksCalling(source, name) ==
    {i \in TasksOf(source) : name \in Range(futures[i].log)}

\* C33: in one fetch, whatever the sources list, at most one task works on a
\* source: its handler is invoked at most once and its cache key written by at
\* most one task, and no id of the source is twice in the response.
C33_OneWorkerPerSource ==
    \A source \in SourceType :
        /\ Cardinality(TasksOf(source)) <= 1
        /\ Cardinality(TasksCalling(source, "handler.fetch")) <= 1
        /\ Cardinality(TasksCalling(source, "cache.set")) <= 1
        /\ Returned =>
              \A ids \in {Ids(ItemsOfSource(Value(response).items, source))} :
                  \A i, j \in DOMAIN ids : ids[i] = ids[j] => i = j


---------------------------------------------------------------------------
(* Claims about fetch with failing table requests, checked under FaultSpec *)

\* The target sources of the fetch in progress that have a handler.
HandledTargets == Range(TargetSources(call.sources)) \cap Range(handlers)

\* The source has contributed exactly one outcome to the response: the item
\* list of its one task, or the one SourceError its task raised.
OneOutcome(source) ==
    \E i \in TasksOf(source) :
        /\ TasksOf(source) = {i}
        /\ futures[i].pc = "collected"
        /\ IF futures[i].error = None
           THEN ItemsOfSource(Value(response).items, source) = futures[i].result
           ELSE /\ Value(response).errors # None
                /\ Cardinality({k \in DOMAIN Value(Value(response).errors) :
                                   Value(Value(response).errors)[k].source = source}) = 1
                /\ ItemsOfSource(Value(response).items, source) = <<>>

\* C34: with every call returning or raising and every thread running on, a
\* fetch that has started returns; when it has returned, every target source
\* with a handler has contributed exactly one outcome; and a task that is done
\* can be collected whatever the other tasks are doing.
C34_FetchTerminates ==
    /\ (phase = "running") ~> Returned
    /\ [](Returned => \A source \in HandledTargets : OneOutcome(source))
    /\ [](\A i \in DOMAIN futures :
              (phase = "running" /\ futures[i].pc = "done") => ENABLED Collect(i))

\* The tasks that ended with an exception that is not a SourceError.
Failed == {i \in DOMAIN futures : futures[i].pc = "failed"}

\* C35: when a table request of one source's task failed and the fetch has
\* ended, fetch has returned a response, and it holds the items of every other
\* task that produced items.
C35_UntypedFailureIsolated ==
    (phase # "running" /\ Failed # {}) =>
        /\ Returned
        /\ \A j \in DOMAIN futures \ (Failed \cup Failing) :
              \A k \in DOMAIN Produced(j) :
                  \E n \in DOMAIN Value(response).items :
                      Value(response).items[n] = Produced(j)[k]


---------------------------------------------------------------------------
(* Further claims about get_news, checked under AgentSpec *)

\* C36: the response of a get_news call (with a limit that is not negative)
\* holds no id twice.
C36_NoDuplicateInResponse ==
    (last # None /\ LastCall.limit >= 0) =>
        \A ids \in {Ids(LastCall.result.items)} :
            \A i, j \in DOMAIN ids : ids[i] = ids[j] => i = j

---------------------------------------------------------------------------
(* Claims about one fetch after another, checked under RefetchSpec *)

\* The tasks of a source in the n-th returned fetch call.
LoggedTasks(n, source) ==
    {i \in DOMAIN fetchlog[n].futures : fetchlog[n].futures[i].source = source}

\* The task made a given call.
TaskCalled(task, name) == name \in Range(task.log)

\* A forced fetch got from the handler of a source a non-empty result of at most
\* MAX_ITEMS_PER_SOURCE items (task i of the n-th returned fetch), and the
\* next fetch, of the same tags, was not forced and ran before those items
\* expire.
RefreshedThenRead(n, i) ==
    LET a == fetchlog[n]
        b == fetchlog[n + 1]
    IN  /\ a.force_refresh
        /\ ~b.force_refresh
        /\ b.tags = a.tags
        /\ a.futures[i].error = None
        /\ TaskCalled(a.futures[i], "handler.fetch")
        /\ a.futures[i].fetched # <<>>
        /\ Len(a.futures[i].fetched) <= MAX_ITEMS_PER_SOURCE
        /\ IntTime(b.at) < ExpiryAt(a.at)

\* C37: after a forced fetch got a non-empty handler result of at
\* most MAX_ITEMS_PER_SOURCE items for a source, the next fetch, not forced
\* and within the TTL, returns exactly those items for the source.
C37_RefreshReplacesCachedView ==
    \A n \in DOMAIN fetchlog : \A source \in Range(handlers) :
        n + 1 \in DOMAIN fetchlog =>
            \A i \in LoggedTasks(n, source) :
                (RefreshedThenRead(n, i) /\ LoggedTasks(n + 1, source) # {})
                => Range(ItemsOfSource(fetchlog[n + 1].items, source))
                       = Range(fetchlog[n].futures[i].fetched)

\* The handler result that tags left of a feed, with items filtered away.
FilteredResult(source, items, tags) ==
    \E feed \in ProviderFeeds(source) :
        /\ items = HandlerItems(source, feed, tags)
        /\ items # HandlerItems(source, feed, None)

\* C38: the tag-filtered handler result that a fetch with tags stored is not
\* what a later fetch of the source, not forced and with no tags, returns from
\* the cache.
C38_TagIndependence ==
    \A m \in DOMAIN fetchlog : \A n \in DOMAIN fetchlog :
        \A source \in Range(handlers) :
            m < n =>
                LET a == fetchlog[m]
                    b == fetchlog[n]
                IN  \A i \in LoggedTasks(m, source) :
                    \A j \in LoggedTasks(n, source) :
                        (/\ a.tags # None
                         /\ b.tags = None
                         /\ ~b.force_refresh
                         /\ a.futures[i].error = None
                         /\ TaskCalled(a.futures[i], "cache.set")
                         /\ a.futures[i].stored # <<>>
                         /\ FilteredResult(source, a.futures[i].stored, a.tags)
                         /\ b.futures[j].cached # None)
                        => ItemsOfSource(b.items, source) # a.futures[i].stored

\* The handler of the source returned no items in the k-th returned fetch.
EmptyHanded(k, source) ==
    \A i \in LoggedTasks(k, source) :
        TaskCalled(fetchlog[k].futures[i], "handler.fetch") =>
            /\ fetchlog[k].futures[i].error = None
            /\ fetchlog[k].futures[i].fetched = <<>>

\* C40: a cache.set of an empty handler result leaves the table as it is, and
\* after a fetch in which the handler of a source returned an empty list
\* every later fetch of the source that is not forced calls the handler
\* again, as long as the handler has not returned an item in between.
C40_EmptyResultNotCached ==
    /\ [](\A m \in DOMAIN fetchlog : \A n \in DOMAIN fetchlog :
            \A source \in Range(handlers) :
                (/\ m < n
                 /\ \E i \in LoggedTasks(m, source) :
                        TaskCalled(fetchlog[m].futures[i], "handler.fetch")
                 /\ \A k \in m..(n - 1) : EmptyHanded(k, source)
                 /\ ~fetchlog[n].force_refresh)
                => \A j \in LoggedTasks(n, source) :
                       TaskCalled(fetchlog[n].futures[j], "handler.fetch"))
    /\ [][\A i \in DOMAIN futures :
              (futures[i].pc = "set" /\ futures[i].fetched = <<>> /\ WorkerCacheSet(i))
                  => table' = table]_vars

---------------------------------------------------------------------------
(* Claims about a fetch with a failing handler, checked under Spec *)

\* The sources of which a handler call raised SourceError in this fetch.
RaisedSources == {futures[i].source : i \in {k \in DOMAIN futures : futures[k].error # None}}

\* C39: when fetch has returned and the handler of a source raised
\* SourceError, no task called set for the source, no task called the
\* handler twice, and the response holds no item of the source, whatever rows
\* the table holds; the rows of a source change only in a task's cache.set.
C39_HandlerErrorLeavesCache ==
    /\ [](Returned =>
            \A source \in RaisedSources :
                /\ TasksCalling(source, "cache.set") = {}
                /\ \A i \in TasksOf(source) :
                       Count(futures[i].log, "handler.fetch") = 1
                /\ ItemsOfSource(Value(response).items, source) = <<>>)
    /\ [][\A source \in Range(handlers) :
              PartitionOf(table', source) # PartitionOf(table, source)
                  => \E i \in TasksOf(source) : WorkerCacheSet(i)]_vars

====
